---- MODULE Spec2Model ----
(***************************************************************************)
(* Model of the Wii extension-controller driver (src/src/wii_lib.c with    *)
(* the report decoders of wii_nunchuck.c and wii_classic_controller.c).    *)
(*                                                                         *)
(* The device structure is one record, `device'.  Every public function    *)
(* of the library is one action; the functions it calls are operators      *)
(* that thread a "call context" [d, n, log, rc]: the device, the number    *)
(* of bus operations issued so far in this call, the bus/delay events      *)
(* issued so far in this call, and the return code.  The peripheral is an  *)
(* input of each action: which bus operations of the call it answers, the  *)
(* identity blob it holds and the status report it holds.  `op', `rc' and  *)
(* `log' are the last call, its return code and the bus and delay events   *)
(* it issued; `hist' follows runs of failed polls.                         *)
(***************************************************************************)
EXTENDS Integers, Sequences, FiniteSets, TLC

VARIABLES device, op, rc, log, hist

vars == <<device, op, rc, log, hist>>

(***************************************************************************)
(* Return codes, WII_LIB_RC (wii_lib.h:29-41).                             *)
(***************************************************************************)
WII_LIB_RC_SUCCESS == 0
WII_LIB_RC_UNSUPPORTED_DEVICE == 1
WII_LIB_RC_TARGET_NOT_INITIALIZED == 2
WII_LIB_RC_I2C_ERROR == 3
WII_LIB_RC_TARGET_ID_MISMATCH == 4
WII_LIB_RC_UNKOWN_PARAMETER == 5
WII_LIB_RC_DATA_RECEIVED_IS_INVALID == 6
WII_LIB_RC_UNABLE_TO_DECRYPT_DATA_RECEIVED == 7
WII_LIB_RC_DEVICE_DISABLED == 8
WII_LIB_RC_RELATIVE_POSITION_FEATURE_DISABLED == 9
\* Used by WiiLib_DoMaintenance (wii_lib.c:131) but not declared in wii_lib.h:
\* a value outside the declared enumerators.
WII_LIB_RC_TARGET_STRUCTURE_NOT_DEFINED == 10

\* Faulty value: one connect attempt more.
OneAttemptMore == 5 + 1

WII_LIB_MAX_CONNECTION_ATTEMPTS == 5
\* Faulty value: the device is reconfigured one failure early.
ReconfiguringOneEarly == 3 - 1

WII_LIB_MAX_FAILURES_BEFORE_RECONFIGURING == 3
\* Faulty values: the device is disabled one failure early, one failure late.
DisablingOneEarly == 20 - 1

DisablingOneLate == 20 + 1

WII_LIB_MAX_FAILURES_BEFORE_DISABLING == 20

(***************************************************************************)
(* WII_LIB_DEVICE_STATUS (wii_lib.h:62-68).  The status field is an int:   *)
(* it is kept as an integer because WiiLib_SetNewHomePosition's copy can   *)
(* store a value in it that is none of the enumerators.                    *)
(***************************************************************************)
WII_LIB_DEVICE_STATUS_NOT_INITIALIZED == 0
WII_LIB_DEVICE_STATUS_CONFIGURING == 1
WII_LIB_DEVICE_STATUS_ACTIVE == 2
WII_LIB_DEVICE_STATUS_DISABLED == 3
\* Used by WiiLib_DoMaintenance (wii_lib.c:127) but not declared in wii_lib.h:
\* a value outside the declared enumerators, which no code path stores.
WII_LIB_DEVICE_STATUS_STRUCTURE_NOT_DEFINED == 4

(***************************************************************************)
(* WII_LIB_TARGET_DEVICE (wii_lib.h:76-85).                                *)
(***************************************************************************)
WII_LIB_TARGET_DEVICE_UNKNOWN == -1
WII_LIB_TARGET_DEVICE_UNSUPPORTED == 0
WII_LIB_TARGET_DEVICE_NUNCHUCK == 1
WII_LIB_TARGET_DEVICE_CLASSIC_CONTROLLER == 2
WII_LIB_TARGET_DEVICE_MOTION_PLUS == 3
WII_LIB_TARGET_DEVICE_MOTION_PLUS_PASS_NUNCHUCK == 4
WII_LIB_TARGET_DEVICE_MOTION_PLUS_PASS_CLASSIC == 5

WII_LIB_ID_LENGTH == 6
WII_LIB_ID_NUNCHUCK == <<0, 0, 164, 32, 0, 0>>
WII_LIB_ID_CLASSIC_CONTROLLER == <<0, 0, 164, 32, 1, 1>>
WII_LIB_ID_WII_MOTION_PLUS == <<0, 0, 164, 32, 4, 5>>
WII_LIB_ID_WII_MOTION_PLUS_PASS_NUNCHUCK == <<0, 0, 164, 32, 5, 5>>
WII_LIB_ID_WII_MOTION_PLUS_PASS_CLASSIC == <<0, 0, 164, 32, 7, 5>>

WII_LIB_MAX_PAYLOAD_SIZE == 20

WII_LIB_I2C_ADDR_STANDARD == 82
WII_LIB_I2C_ADDR_WII_MOTION_PLUS == 83

WII_LIB_PARAM_STATUS == 0
WII_LIB_PARAM_RAW_DATA == 32
WII_LIB_PARAM_DEVICE_TYPE == 250

WII_LIB_PARAM_RESPONSE_LEN_DEFAULT == 6
WII_LIB_PARAM_RESPONSE_LEN_EXTENDED == 20

WII_LIB_DELAY_I2C_SETTLE_TIME_MS == 10
WII_LIB_DELAY_AFTER_CONFIRM_ID_MS == 10
WII_LIB_DELAY_AFTER_CONNECTION_ATTEMPT_MS == 500
WII_LIB_DELAY_AFTER_CONFIG_MESSAGE_MS == 20

(***************************************************************************)
(* Fixed-width arithmetic and bit fields.                                  *)
(***************************************************************************)
Pow2(n) == IF n = 0 THEN 1 ELSE IF n = 1 THEN 2 ELSE IF n = 2 THEN 4
           ELSE IF n = 3 THEN 8 ELSE IF n = 4 THEN 16 ELSE IF n = 5 THEN 32
           ELSE IF n = 6 THEN 64 ELSE IF n = 7 THEN 128 ELSE 256

\* bits <lo+width-1 : lo> of a byte: a bit field of a little-endian packed struct
Field(b, lo, width) == (b \div Pow2(lo)) % Pow2(width)

\* !(x & 0x01)
NotBit(x) == IF x % 2 = 1 THEN 0 ELSE 1

\* a | b for operands without common bits is a + b; the decoders only ever OR
\* shifted fields that do not overlap, except where noted at the use.
RECURSIVE BitOr(_, _)
BitOr(a, b) == IF a = 0 THEN b ELSE IF b = 0 THEN a
               ELSE (IF a % 2 = 1 \/ b % 2 = 1 THEN 1 ELSE 0) + 2 * BitOr(a \div 2, b \div 2)

RECURSIVE BitXor(_, _)
BitXor(a, b) == IF a = 0 THEN b ELSE IF b = 0 THEN a
                ELSE (IF a % 2 = b % 2 THEN 0 ELSE 1) + 2 * BitXor(a \div 2, b \div 2)

RECURSIVE BitAnd(_, _)
BitAnd(a, b) == IF a = 0 \/ b = 0 THEN 0
                ELSE (IF a % 2 = 1 /\ b % 2 = 1 THEN 1 ELSE 0) + 2 * BitAnd(a \div 2, b \div 2)

ToUint8(x) == x % 256
ToInt8(x) == LET m == x % 256 IN IF m >= 128 THEN m - 256 ELSE m
ToInt16(x) == LET m == x % 65536 IN IF m >= 32768 THEN m - 65536 ELSE m

Zeros(n) == [i \in 1..n |-> 0]
AllFF(n) == [i \in 1..n |-> 255]

\* buffOut: the bytes received, in a 20-byte buffer initialised to zero
PadTo20(s) == [i \in 1..WII_LIB_MAX_PAYLOAD_SIZE |-> IF i <= Len(s) THEN s[i] ELSE 0]

(***************************************************************************)
(* WiiLib_Interface (wii_lib.h:160-196): 16 uint8_t button flags, two      *)
(* int8_t triggers, ten int16_t axes, in declaration order, no padding.    *)
(***************************************************************************)
ButtonFields == {"buttonA", "buttonB", "buttonC", "buttonX", "buttonY", "buttonZL",
                 "buttonZR", "buttonMinus", "buttonHome", "buttonPlus", "dpadLeft",
                 "dpadUp", "dpadRight", "dpadDown", "buttonLeftTrigger",
                 "buttonRightTrigger"}

Int8Fields == {"triggerLeft", "triggerRight"}

Int16Fields == {"analogLeftX", "analogLeftY", "analogRightX", "analogRightY",
                "accelX", "accelY", "accelZ", "gyroX", "gyroY", "gyroZ"}

AnalogFields == Int8Fields \cup Int16Fields

InterfaceFields == ButtonFields \cup AnalogFields

\* a zero-filled WiiLib_Interface
ZeroInterface == [f \in InterfaceFields |-> 0]

(***************************************************************************)
(* WiiLib_Device (wii_lib.h:206-218) as it is in zero-filled storage       *)
(* before WiiLib_Init is called on it.  Of the I2C_Device member only the  *)
(* peripheral address is kept.                                             *)
(***************************************************************************)
ZeroDevice ==
    [addr |-> 0,
     target |-> 0,
     dataEncrypted |-> 0,
     calculateRelativePosition |-> 0,
     dataCurrent |-> Zeros(WII_LIB_MAX_PAYLOAD_SIZE),
     interfaceCurrent |-> ZeroInterface,
     interfaceHome |-> ZeroInterface,
     interfaceRelative |-> ZeroInterface,
     failedParamQueryCount |-> 0,
     status |-> 0]

(***************************************************************************)
(* The peripheral as one call sees it.  The bus operations of a call are   *)
(* numbered from 0 in the order the call issues them: the first `ok' are   *)
(* answered, the next `fail' fail in the way `mode' names ("nack": a byte  *)
(* is not acknowledged; "notready": the bytes read are all 0xFF), and the  *)
(* rest are answered.  `id' is the identity blob at register 0xFA,         *)
(* `report' the six-byte status report, `urc' the value an uninitialised   *)
(* WII_LIB_RC local happens to hold.                                       *)
(***************************************************************************)
Forever == 99

BusOutcome(e, i) == IF i < e.ok THEN "ok"
                    ELSE IF i < e.ok + e.fail THEN e.mode
                    ELSE "ok"

\* the bytes the peripheral returns for a read of `len' bytes of register `param'
Response(e, param, len) ==
    IF param = WII_LIB_PARAM_DEVICE_TYPE THEN e.id
    ELSE IF param = WII_LIB_PARAM_STATUS THEN e.report
    ELSE [i \in 1..len |-> IF i <= 6 THEN e.report[i] ELSE 0]

NewCall(d) == [d |-> d, n |-> 0, log |-> <<>>, rc |-> 0, rx |-> <<>>]

Ret(c, code) == [c EXCEPT !.rc = code]

Delay_Ms(c, ms) == [c EXCEPT !.log = Append(@, [ev |-> "delay", ms |-> ms])]

I2C_RC_SUCCESS == 0
I2C_RC_NO_ACK == 4

(***************************************************************************)
(* I2C_Transmit (i2c.c:86-107) and I2C_TxRx (i2c.c:182-229) as the driver  *)
(* sees them: one bus transaction that either succeeds or returns          *)
(* I2C_RC_NO_ACK.  I2C_TxRx leaves the bytes read in `rx'.                 *)
(***************************************************************************)
I2C_Transmit(c, e, data) ==
    LET acked == BusOutcome(e, c.n) # "nack"
    IN [c EXCEPT !.n = @ + 1,
                 !.log = Append(@, [ev |-> "write", data |-> data, ok |-> acked]),
                 !.rc = IF acked THEN I2C_RC_SUCCESS ELSE I2C_RC_NO_ACK]

I2C_TxRx(c, e, param, lenRx) ==
    LET o == BusOutcome(e, c.n)
    IN [c EXCEPT !.n = @ + 1,
                 !.log = Append(@, [ev |-> "query", param |-> param, len |-> lenRx,
                                   ok |-> (o # "nack")]),
                 !.rx = IF o = "nack" THEN <<>>
                        ELSE IF o = "notready" THEN AllFF(lenRx)
                        ELSE Response(e, param, lenRx),
                 !.rc = IF o = "nack" THEN I2C_RC_NO_ACK ELSE I2C_RC_SUCCESS]

(***************************************************************************)
(* WiiLib_ConfigureDevice (wii_lib.c:231-267).                             *)
(***************************************************************************)
\* c: the call after the last message of the sequence (wii_lib.c:240-241, 254-265)
ConfigureDone(c) ==
    IF c.rc # I2C_RC_SUCCESS
    THEN Ret(c, WII_LIB_RC_I2C_ERROR)
    ELSE Ret(Delay_Ms(c, WII_LIB_DELAY_AFTER_CONFIG_MESSAGE_MS), WII_LIB_RC_SUCCESS)

\* Faulty variant: the second message is sent whatever became of the first.
ConfigureSecondMessage_Regardless(c, e) ==
    ConfigureDone(I2C_Transmit(Delay_Ms(c, WII_LIB_DELAY_AFTER_CONFIG_MESSAGE_MS),
                               e, <<251, 0>>))

\* c: the call after the message 0xF0 0x55 (wii_lib.c:248-260)
ConfigureSecondMessage(c, e) ==
    IF c.rc = I2C_RC_SUCCESS
    THEN ConfigureDone(I2C_Transmit(Delay_Ms(c, WII_LIB_DELAY_AFTER_CONFIG_MESSAGE_MS),
                                    e, <<251, 0>>))
    ELSE Ret(c, WII_LIB_RC_I2C_ERROR)

WiiLib_ConfigureDevice(c, e) ==
    IF c.d.dataEncrypted # 0
    THEN ConfigureDone(I2C_Transmit(c, e, <<64, 0>>))
    ELSE ConfigureSecondMessage(I2C_Transmit(c, e, <<240, 85>>), e)

(***************************************************************************)
(* WiiLib_ValidateDataReceived (wii_lib.c:514-524): FALSE iff the first    *)
(* len bytes are all 0xFF.                                                 *)
(***************************************************************************)
\* Faulty variant: only the first six bytes are looked at.
ValidateDataReceived_FirstSix(data, len) ==
    \E i \in 1..WII_LIB_PARAM_RESPONSE_LEN_DEFAULT : data[i] # 255

WiiLib_ValidateDataReceived(data, len) == \E i \in 1..len : data[i] # 255

(***************************************************************************)
(* WiiLib_Decrypt (wii_lib.c:539-548): the first len bytes, in place.      *)
(***************************************************************************)
\* Faulty variant: the addition is made before the exclusive or.
DecryptByte_AddingFirst(b) == BitXor((b + 23) % 256, 23)

DecryptByte(b) == (BitXor(b, 23) + 23) % 256

WiiLib_Decrypt(data, len) == [i \in 1..Len(data) |-> IF i <= len THEN DecryptByte(data[i])
                                                     ELSE data[i]]

(***************************************************************************)
(* WiiNunchuck_ProcessStatusParam (wii_nunchuck.c:37-81): the new          *)
(* interfaceCurrent decoded from dataCurrent b (bytes b[1]..b[6]) through  *)
(* the bit fields of WiiNunchuck_StatusNormal / _StatusPassThrough; the    *)
(* fields the decoder does not assign keep the value they have in cur.     *)
(***************************************************************************)
\* Faulty variant: the right joystick is not given the values of the left one.
NunchuckMirror_ButtonOnly(i) == [i EXCEPT !.buttonZR = i.buttonZL]

NunchuckMirror(i) == [i EXCEPT !.buttonZR = i.buttonZL,
                               !.analogRightX = i.analogLeftX,
                               !.analogRightY = i.analogLeftY]

\* Faulty variant: the two low bits of the accelerations are left out.
NunchuckNormal_HighBitsOnly(cur, b) ==
    NunchuckMirror(
        [cur EXCEPT !.buttonC = NotBit(BitAnd(Field(b[6], 1, 1), 1)),
                    !.buttonZL = NotBit(BitAnd(Field(b[6], 0, 1), 1)),
                    !.analogLeftX = ToInt16(b[1]),
                    !.analogLeftY = ToInt16(b[2]),
                    !.accelX = ToInt16(b[3] * 4),
                    !.accelY = ToInt16(b[4] * 4),
                    !.accelZ = ToInt16(BitOr(b[5] * 4, BitAnd(Field(b[6], 6, 2), 3)))])

NunchuckNormal(cur, b) ==
    NunchuckMirror(
        [cur EXCEPT !.buttonC = NotBit(BitAnd(Field(b[6], 1, 1), 1)),
                    !.buttonZL = NotBit(BitAnd(Field(b[6], 0, 1), 1)),
                    !.analogLeftX = ToInt16(b[1]),
                    !.analogLeftY = ToInt16(b[2]),
                    !.accelX = ToInt16(BitOr(b[3] * 4, BitAnd(Field(b[6], 2, 2), 3))),
                    !.accelY = ToInt16(BitOr(b[4] * 4, BitAnd(Field(b[6], 4, 2), 3))),
                    !.accelZ = ToInt16(BitOr(b[5] * 4, BitAnd(Field(b[6], 6, 2), 3)))])

NunchuckPassThrough(cur, b) ==
    NunchuckMirror(
        [cur EXCEPT !.buttonC = NotBit(BitAnd(Field(b[6], 3, 1), 1)),
                    !.buttonZL = NotBit(BitAnd(Field(b[6], 2, 1), 1)),
                    !.analogLeftX = ToInt16(b[1]),
                    !.analogLeftY = ToInt16(b[2]),
                    !.accelX = ToInt16(BitOr(b[3] * 4, BitAnd(Field(b[6], 4, 1), 1) * 2)),
                    !.accelY = ToInt16(BitOr(b[4] * 4, BitAnd(Field(b[6], 5, 1), 1) * 2)),
                    !.accelZ = ToInt16(BitOr(BitAnd(Field(b[5], 1, 7), 254) * 4,
                                             BitAnd(Field(b[6], 6, 2), 3) * 2))])

(***************************************************************************)
(* WiiClassic_ProcessStatusParam (wii_classic_controller.c:33-108).        *)
(***************************************************************************)
ClassicCommon(cur, b) ==
    [cur EXCEPT !.buttonA = NotBit(BitAnd(Field(b[6], 4, 1), 1)),
                !.buttonB = NotBit(BitAnd(Field(b[6], 6, 1), 1)),
                !.buttonX = NotBit(BitAnd(Field(b[6], 3, 1), 1)),
                !.buttonY = NotBit(BitAnd(Field(b[6], 5, 1), 1)),
                !.buttonZL = NotBit(BitAnd(Field(b[6], 7, 1), 1)),
                !.buttonZR = NotBit(BitAnd(Field(b[6], 2, 1), 1)),
                !.buttonMinus = NotBit(BitAnd(Field(b[5], 4, 1), 1)),
                !.buttonHome = NotBit(BitAnd(Field(b[5], 3, 1), 1)),
                !.buttonPlus = NotBit(BitAnd(Field(b[5], 2, 1), 1)),
                !.dpadRight = NotBit(BitAnd(Field(b[5], 7, 1), 1)),
                !.dpadDown = NotBit(BitAnd(Field(b[5], 6, 1), 1)),
                !.buttonLeftTrigger = NotBit(BitAnd(Field(b[5], 5, 1), 1)),
                !.buttonRightTrigger = NotBit(BitAnd(Field(b[5], 1, 1), 1)),
                !.triggerLeft = ToInt8(BitOr(BitAnd(Field(b[3], 5, 2), 3) * 8,
                                             BitAnd(Field(b[4], 5, 3), 7))),
                !.triggerRight = ToInt8(Field(b[4], 0, 5)),
                !.analogRightX = ToInt16(BitOr(BitOr(BitAnd(Field(b[1], 6, 2), 3) * 8,
                                                     BitAnd(Field(b[2], 6, 2), 3) * 2),
                                               BitAnd(Field(b[3], 7, 1), 1))),
                !.analogRightY = ToInt16(Field(b[3], 0, 5))]

\* Faulty variant: the left joystick is read as five bits instead of six.
ClassicNormal_FiveBitLeft(cur, b) ==
    [ClassicCommon(cur, b) EXCEPT !.dpadLeft = NotBit(BitAnd(Field(b[6], 1, 1), 1)),
                                  !.dpadUp = NotBit(BitAnd(Field(b[6], 0, 1), 1)),
                                  !.analogLeftX = ToInt16(Field(b[1], 0, 5)),
                                  !.analogLeftY = ToInt16(Field(b[2], 0, 5))]

ClassicNormal(cur, b) ==
    [ClassicCommon(cur, b) EXCEPT !.dpadLeft = NotBit(BitAnd(Field(b[6], 1, 1), 1)),
                                  !.dpadUp = NotBit(BitAnd(Field(b[6], 0, 1), 1)),
                                  !.analogLeftX = ToInt16(Field(b[1], 0, 6)),
                                  !.analogLeftY = ToInt16(Field(b[2], 0, 6))]

ClassicPassThrough(cur, b) ==
    [ClassicCommon(cur, b) EXCEPT !.dpadLeft = NotBit(BitAnd(Field(b[2], 0, 1), 1)),
                                  !.dpadUp = NotBit(BitAnd(Field(b[1], 0, 1), 1)),
                                  !.analogLeftX = ToInt16(BitAnd(Field(b[1], 1, 5), 62)),
                                  !.analogLeftY = ToInt16(BitAnd(Field(b[2], 1, 5), 62))]

(***************************************************************************)
(* The relative-position step of WiiLib_UpdateInterfaceTracking            *)
(* (wii_lib.c:589-605): the first WII_LIB_MAX_PAYLOAD_SIZE = 20 bytes of   *)
(* interfaceHome are copied over interfaceRelative (the 16 button bytes,   *)
(* the two triggers and analogLeftX), then every analog field is assigned  *)
(* current - home, converted to the field's type.                          *)
(***************************************************************************)
First20Bytes == ButtonFields \cup Int8Fields \cup {"analogLeftX"}

\* Faulty variant: the differences are taken the other way round.
RelativeOf_HomeMinusCurrent(cur, home, rel) ==
    [f \in InterfaceFields |->
        IF f \in Int8Fields THEN ToInt8(home[f] - cur[f])
        ELSE IF f \in Int16Fields THEN ToInt16(home[f] - cur[f])
        ELSE home[f]]

RelativeOf(cur, home, rel) ==
    LET copied == [f \in InterfaceFields |-> IF f \in First20Bytes THEN home[f] ELSE rel[f]]
    IN [f \in InterfaceFields |->
            IF f \in Int8Fields THEN ToInt8(cur[f] - home[f])
            ELSE IF f \in Int16Fields THEN ToInt16(cur[f] - home[f])
            ELSE copied[f]]

(***************************************************************************)
(* WiiLib_UpdateInterfaceTracking (wii_lib.c:563-609).  For MOTION_PLUS    *)
(* the switch arm leaves returnCode uninitialised: the value read is e.urc.*)
(***************************************************************************)
\* the decoder that the switch on the kind of device selects (wii_lib.c:567-577)
ProcessStatusParam(d) ==
    IF d.target = WII_LIB_TARGET_DEVICE_NUNCHUCK
    THEN NunchuckNormal(d.interfaceCurrent, d.dataCurrent)
    ELSE IF d.target = WII_LIB_TARGET_DEVICE_MOTION_PLUS_PASS_NUNCHUCK
    THEN NunchuckPassThrough(d.interfaceCurrent, d.dataCurrent)
    ELSE IF d.target = WII_LIB_TARGET_DEVICE_CLASSIC_CONTROLLER
    THEN ClassicNormal(d.interfaceCurrent, d.dataCurrent)
    ELSE IF d.target = WII_LIB_TARGET_DEVICE_MOTION_PLUS_PASS_CLASSIC
    THEN ClassicPassThrough(d.interfaceCurrent, d.dataCurrent)
    ELSE d.interfaceCurrent

\* Faulty variant: the relative positions are computed whatever the flag is.
InterfaceTracked_IgnoringFlag(c, decoded, returnCode) ==
    Ret([c EXCEPT !.d.interfaceCurrent = decoded,
                  !.d.interfaceRelative =
                      RelativeOf(decoded, c.d.interfaceHome, c.d.interfaceRelative)],
        returnCode)

\* the relative positions and the return (wii_lib.c:589-607)
InterfaceTracked(c, decoded, returnCode) ==
    IF returnCode = WII_LIB_RC_SUCCESS /\ c.d.calculateRelativePosition # 0
    THEN Ret([c EXCEPT !.d.interfaceCurrent = decoded,
                       !.d.interfaceRelative =
                           RelativeOf(decoded, c.d.interfaceHome, c.d.interfaceRelative)],
             returnCode)
    ELSE Ret([c EXCEPT !.d.interfaceCurrent = decoded], returnCode)

WiiLib_UpdateInterfaceTracking(c, e) ==
    IF c.d.target \notin {WII_LIB_TARGET_DEVICE_NUNCHUCK,
                          WII_LIB_TARGET_DEVICE_MOTION_PLUS_PASS_NUNCHUCK,
                          WII_LIB_TARGET_DEVICE_CLASSIC_CONTROLLER,
                          WII_LIB_TARGET_DEVICE_MOTION_PLUS_PASS_CLASSIC,
                          WII_LIB_TARGET_DEVICE_MOTION_PLUS}
    THEN Ret(c, WII_LIB_RC_UNSUPPORTED_DEVICE)
    ELSE InterfaceTracked(c, ProcessStatusParam(c.d),
                          IF c.d.target = WII_LIB_TARGET_DEVICE_MOTION_PLUS
                          THEN e.urc ELSE WII_LIB_RC_SUCCESS)

(***************************************************************************)
(* WiiLib_QueryParameter (wii_lib.c:287-358).  QueryTransfer is the else   *)
(* arm of its check of the status (wii_lib.c:299-357).                     *)
(***************************************************************************)
\* c: the call after I2C_TxRx (wii_lib.c:322-356)
QueryReceived(c, e, param, lenOut, decryptData) ==
    LET buffOut == PadTo20(c.rx)
        failed == (c.d.failedParamQueryCount + 1) % 256
    IN IF c.rc = I2C_RC_SUCCESS
       THEN IF ~WiiLib_ValidateDataReceived(buffOut, lenOut)
            THEN Ret([c EXCEPT !.d.dataCurrent = Zeros(WII_LIB_MAX_PAYLOAD_SIZE),
                               !.d.failedParamQueryCount = failed],
                     WII_LIB_RC_DATA_RECEIVED_IS_INVALID)
            ELSE IF param = WII_LIB_PARAM_STATUS
            THEN WiiLib_UpdateInterfaceTracking(
                     [c EXCEPT !.d.dataCurrent = IF decryptData # 0
                                                 THEN WiiLib_Decrypt(buffOut, WII_LIB_ID_LENGTH)
                                                 ELSE buffOut,
                               !.d.failedParamQueryCount = 0], e)
            ELSE Ret([c EXCEPT !.d.dataCurrent = IF decryptData # 0
                                                 THEN WiiLib_Decrypt(buffOut, WII_LIB_ID_LENGTH)
                                                 ELSE buffOut,
                               !.d.failedParamQueryCount = 0], WII_LIB_RC_SUCCESS)
       ELSE Ret([c EXCEPT !.d.failedParamQueryCount = failed], WII_LIB_RC_I2C_ERROR)

\* Faulty variant: the configuration is pushed out for every kind of device.
QueryTransfer_AlwaysConfiguring(c, e, param) ==
    IF param \notin {WII_LIB_PARAM_STATUS, WII_LIB_PARAM_DEVICE_TYPE,
                     WII_LIB_PARAM_RAW_DATA}
    THEN Ret(c, WII_LIB_RC_UNKOWN_PARAMETER)
    ELSE QueryReceived(
             I2C_TxRx(IF param = WII_LIB_PARAM_STATUS
                      THEN WiiLib_ConfigureDevice(c, e)
                      ELSE c,
                      e, param, WII_LIB_PARAM_RESPONSE_LEN_DEFAULT),
             e, param, WII_LIB_PARAM_RESPONSE_LEN_DEFAULT, c.d.dataEncrypted)

QueryTransfer(c, e, param) ==
    IF param \notin {WII_LIB_PARAM_STATUS, WII_LIB_PARAM_DEVICE_TYPE,
                     WII_LIB_PARAM_RAW_DATA}
    THEN Ret(c, WII_LIB_RC_UNKOWN_PARAMETER)
    ELSE
      LET lenOut == IF param = WII_LIB_PARAM_RAW_DATA
                    THEN WII_LIB_PARAM_RESPONSE_LEN_EXTENDED
                    ELSE WII_LIB_PARAM_RESPONSE_LEN_DEFAULT
      IN QueryReceived(
             I2C_TxRx(IF param = WII_LIB_PARAM_STATUS
                         /\ c.d.target \in {WII_LIB_TARGET_DEVICE_CLASSIC_CONTROLLER,
                                            WII_LIB_TARGET_DEVICE_MOTION_PLUS_PASS_CLASSIC}
                      THEN WiiLib_ConfigureDevice(c, e)
                      ELSE c,
                      e, param, lenOut),
             e, param, lenOut, c.d.dataEncrypted)

\* Faulty variant: the status is not checked.
QueryParameter_IgnoringDisabled(c, e, param) == QueryTransfer(c, e, param)

\* Faulty variant: a successful query leaves failedParamQueryCount as it was.
QueryParameter_KeepingCount(c, e, param) ==
    LET r == QueryTransfer(c, e, param)
    IN IF c.d.status = WII_LIB_DEVICE_STATUS_DISABLED
       THEN Ret(c, WII_LIB_RC_DEVICE_DISABLED)
       ELSE IF r.rc = WII_LIB_RC_SUCCESS
       THEN [r EXCEPT !.d.failedParamQueryCount = c.d.failedParamQueryCount]
       ELSE r

WiiLib_QueryParameter(c, e, param) ==
    IF c.d.status = WII_LIB_DEVICE_STATUS_DISABLED
    THEN Ret(c, WII_LIB_RC_DEVICE_DISABLED)
    ELSE QueryTransfer(c, e, param)

WiiLib_PollStatus(c, e) == WiiLib_QueryParameter(c, e, WII_LIB_PARAM_STATUS)

(***************************************************************************)
(* WiiLib_SetNewHomePosition (wii_lib.c:400-414).                          *)
(*                                                                         *)
(* The copy is memcpy(&interfaceHome, &interfaceCurrent,                   *)
(* sizeof(WiiLib_Device)): it is longer than one WiiLib_Interface (38      *)
(* bytes), so source and destination overlap and the destination runs on   *)
(* over interfaceRelative, failedParamQueryCount, status and past the end  *)
(* of the structure.  Within the structure every byte at offset x of the   *)
(* destination region receives the byte 38 below it:                       *)
(*    interfaceHome          <- interfaceCurrent                           *)
(*    interfaceRelative      <- interfaceHome                              *)
(*    failedParamQueryCount  <- interfaceRelative byte 0    (buttonA)      *)
(*    status (4 bytes, LE)   <- interfaceRelative bytes 4-7 (buttonY,      *)
(*                              buttonZL, buttonZR, buttonMinus)           *)
(* An overlapping memcpy is undefined: e.copy chooses between the two      *)
(* results a copy loop gives.  "move": every source byte is read before    *)
(* it is overwritten (a descending copy).  "forward": an ascending copy,   *)
(* in which the source bytes above interfaceCurrent have already been      *)
(* overwritten when they are read, so that interfaceCurrent is replicated  *)
(* down the structure.  What the copy does to the memory after the         *)
(* structure is outside this model.                                        *)
(***************************************************************************)
StatusBytes(i) == i.buttonY + 256 * i.buttonZL + 65536 * i.buttonZR
                  + 16777216 * i.buttonMinus

\* Faulty variant: the copy leaves interfaceHome as it was.
CopyHome_KeepingHome(d, copy) == [d EXCEPT !.interfaceRelative = d.interfaceHome]

CopyHome(d, copy) ==
    LET srcRelative == IF copy = "move" THEN d.interfaceHome ELSE d.interfaceCurrent
        srcTail == IF copy = "move" THEN d.interfaceRelative ELSE d.interfaceCurrent
    IN [d EXCEPT !.interfaceHome = d.interfaceCurrent,
                 !.interfaceRelative = srcRelative,
                 !.failedParamQueryCount = srcTail.buttonA,
                 !.status = StatusBytes(srcTail)]

\* Faulty variant: the copy is made whatever the poll returned.
HomeCopied_Always(c, copy) == [c EXCEPT !.d = [c.d EXCEPT !.interfaceHome = c.d.interfaceCurrent]]

\* Faulty variant: the flag is not looked at.
SetNewHomePosition_IgnoringFlag(c, e) ==
    IF WiiLib_PollStatus(c, e).rc = WII_LIB_RC_SUCCESS
    THEN [WiiLib_PollStatus(c, e) EXCEPT
              !.d.interfaceHome = WiiLib_PollStatus(c, e).d.interfaceCurrent]
    ELSE WiiLib_PollStatus(c, e)

\* c: the call after WiiLib_PollStatus (wii_lib.c:409-412)
HomeCopied(c, copy) ==
    IF c.rc = WII_LIB_RC_SUCCESS
    THEN [c EXCEPT !.d = CopyHome(c.d, copy)]
    ELSE c

WiiLib_SetNewHomePosition(c, e) ==
    IF c.d.calculateRelativePosition = 0
    THEN Ret(c, WII_LIB_RC_RELATIVE_POSITION_FEATURE_DISABLED)
    ELSE HomeCopied(WiiLib_PollStatus(c, e), e.copy)

(***************************************************************************)
(* WiiLib_DetermineDeviceType (wii_lib.c:473-498): the context after the   *)
(* DEVICE_TYPE query, with the kind determined in rc.                      *)
(***************************************************************************)
IdOf(data) == [i \in 1..WII_LIB_ID_LENGTH |-> data[i]]

\* Faulty variant: a blob that is in no signature is taken for a failed read.
DeviceTypeRead_UnlistedIsUnknown(c) ==
    IF c.rc = I2C_RC_SUCCESS /\ IdOf(c.d.dataCurrent) = WII_LIB_ID_NUNCHUCK
    THEN Ret(c, WII_LIB_TARGET_DEVICE_NUNCHUCK)
    ELSE IF c.rc = I2C_RC_SUCCESS /\ IdOf(c.d.dataCurrent) = WII_LIB_ID_CLASSIC_CONTROLLER
    THEN Ret(c, WII_LIB_TARGET_DEVICE_CLASSIC_CONTROLLER)
    ELSE Ret(c, WII_LIB_TARGET_DEVICE_UNKNOWN)

\* c: the call after the DEVICE_TYPE query (wii_lib.c:475-496)
DeviceTypeRead(c) ==
    LET id == IdOf(c.d.dataCurrent)
    IN IF c.rc = I2C_RC_SUCCESS
       THEN Ret(c, IF id = WII_LIB_ID_NUNCHUCK
                   THEN WII_LIB_TARGET_DEVICE_NUNCHUCK
                   ELSE IF id = WII_LIB_ID_CLASSIC_CONTROLLER
                   THEN WII_LIB_TARGET_DEVICE_CLASSIC_CONTROLLER
                   ELSE IF id = WII_LIB_ID_WII_MOTION_PLUS
                   THEN WII_LIB_TARGET_DEVICE_MOTION_PLUS
                   ELSE IF id = WII_LIB_ID_WII_MOTION_PLUS_PASS_NUNCHUCK
                   THEN WII_LIB_TARGET_DEVICE_MOTION_PLUS_PASS_NUNCHUCK
                   ELSE IF id = WII_LIB_ID_WII_MOTION_PLUS_PASS_CLASSIC
                   THEN WII_LIB_TARGET_DEVICE_MOTION_PLUS_PASS_CLASSIC
                   ELSE WII_LIB_TARGET_DEVICE_UNSUPPORTED)
       ELSE Ret(c, WII_LIB_TARGET_DEVICE_UNKNOWN)

WiiLib_DetermineDeviceType(c, e) ==
    DeviceTypeRead(WiiLib_QueryParameter(c, e, WII_LIB_PARAM_DEVICE_TYPE))

(***************************************************************************)
(* WiiLib_ConnectToTarget (wii_lib.c:194-216).  The call is entered in the *)
(* log as a "connect" event and its return as a "connected" event: the     *)
(* value returned, the kind expected on entry, whether the identity was    *)
(* read, and the kind read.                                                *)
(***************************************************************************)
Connected(c, want, id, read) ==
    [c EXCEPT !.log = Append(@, [ev |-> "connected", rc |-> c.rc, want |-> want,
                                id |-> id, read |-> read])]

\* Faulty variant: the kind read is not recorded in the device.
ConnectIdentified_NotRecording(c, e, want) ==
    IF c.rc # c.d.target /\ c.d.target # WII_LIB_TARGET_DEVICE_UNKNOWN
    THEN Connected(Ret(c, WII_LIB_RC_TARGET_ID_MISMATCH), want, TRUE, c.rc)
    ELSE Connected(WiiLib_SetNewHomePosition(
                       Delay_Ms(c, WII_LIB_DELAY_AFTER_CONFIRM_ID_MS), e),
                   want, TRUE, c.rc)

\* c: the call after WiiLib_DetermineDeviceType, with targetValueRead in c.rc
\* (wii_lib.c:205-214)
ConnectIdentified(c, e, want) ==
    IF c.rc # c.d.target /\ c.d.target # WII_LIB_TARGET_DEVICE_UNKNOWN
    THEN Connected(Ret([c EXCEPT !.d.target = c.rc], WII_LIB_RC_TARGET_ID_MISMATCH),
                   want, TRUE, c.rc)
    ELSE Connected(WiiLib_SetNewHomePosition(
                       Delay_Ms(c, WII_LIB_DELAY_AFTER_CONFIRM_ID_MS), e),
                   want, TRUE, c.rc)

\* c: the call after WiiLib_ConfigureDevice (wii_lib.c:199-204)
ConnectConfigured(c, e, want) ==
    IF c.rc # WII_LIB_RC_SUCCESS
    THEN Connected(Ret(c, WII_LIB_RC_TARGET_NOT_INITIALIZED), want, FALSE, want)
    ELSE ConnectIdentified(WiiLib_DetermineDeviceType(c, e), e, want)

WiiLib_ConnectToTarget(c, e) ==
    ConnectConfigured(
        WiiLib_ConfigureDevice([c EXCEPT !.log = Append(@, [ev |-> "connect"])], e),
        e, c.d.target)

(***************************************************************************)
(* The do-while loop of WiiLib_DoMaintenance (wii_lib.c:152-165), entered  *)
(* with connectionAttemptsReamining = remaining.                           *)
(***************************************************************************)
RECURSIVE ConnectLoop(_, _, _)
\* Faulty variant: the error of the last attempt is returned as it is.
ConnectAttempted_Propagating(c, e, remaining) ==
    IF c.rc = WII_LIB_RC_SUCCESS \/ c.rc = WII_LIB_RC_TARGET_ID_MISMATCH
    THEN Ret([c EXCEPT !.d.status = WII_LIB_DEVICE_STATUS_ACTIVE], WII_LIB_RC_SUCCESS)
    ELSE IF remaining - 1 # 0
    THEN ConnectLoop(c, e, remaining - 1)
    ELSE c

\* c: the call after WiiLib_ConnectToTarget (wii_lib.c:159-167)
ConnectAttempted(c, e, remaining) ==
    IF c.rc = WII_LIB_RC_SUCCESS \/ c.rc = WII_LIB_RC_TARGET_ID_MISMATCH
    THEN Ret([c EXCEPT !.d.status = WII_LIB_DEVICE_STATUS_ACTIVE], WII_LIB_RC_SUCCESS)
    ELSE IF remaining - 1 # 0
    THEN ConnectLoop(c, e, remaining - 1)
    ELSE Ret(c, WII_LIB_RC_TARGET_NOT_INITIALIZED)

ConnectLoop(c, e, remaining) ==
    ConnectAttempted(
        WiiLib_ConnectToTarget(
            IF remaining # WII_LIB_MAX_CONNECTION_ATTEMPTS
            THEN Delay_Ms(c, WII_LIB_DELAY_AFTER_CONNECTION_ATTEMPT_MS)
            ELSE c, e),
        e, remaining)

(***************************************************************************)
(* WiiLib_DoMaintenance (wii_lib.c:125-175).                               *)
(***************************************************************************)
\* Faulty variant: the device is disabled when the connect attempts are exhausted.
DoMaintenance_DisablingWhenExhausted(c, e) ==
    LET r == ConnectLoop(c, e, WII_LIB_MAX_CONNECTION_ATTEMPTS)
    IN IF c.d.failedParamQueryCount > WII_LIB_MAX_FAILURES_BEFORE_DISABLING
       THEN Ret([c EXCEPT !.d.status = WII_LIB_DEVICE_STATUS_DISABLED],
                WII_LIB_RC_DEVICE_DISABLED)
       ELSE IF c.d.failedParamQueryCount > WII_LIB_MAX_FAILURES_BEFORE_RECONFIGURING
       THEN WiiLib_ConfigureDevice(
                [c EXCEPT !.d.status = WII_LIB_DEVICE_STATUS_CONFIGURING], e)
       ELSE IF c.d.status # WII_LIB_DEVICE_STATUS_NOT_INITIALIZED
       THEN Ret([c EXCEPT !.d.status = WII_LIB_DEVICE_STATUS_ACTIVE], WII_LIB_RC_SUCCESS)
       ELSE IF r.rc = WII_LIB_RC_TARGET_NOT_INITIALIZED
       THEN [r EXCEPT !.d.status = WII_LIB_DEVICE_STATUS_DISABLED]
       ELSE r

\* Faulty variant: between the two thresholds nothing is reconfigured.
DoMaintenance_SkippingReconfigure(c, e) ==
    IF c.d.failedParamQueryCount > WII_LIB_MAX_FAILURES_BEFORE_DISABLING
    THEN Ret([c EXCEPT !.d.status = WII_LIB_DEVICE_STATUS_DISABLED],
             WII_LIB_RC_DEVICE_DISABLED)
    ELSE IF c.d.status = WII_LIB_DEVICE_STATUS_NOT_INITIALIZED
            /\ c.d.failedParamQueryCount <= WII_LIB_MAX_FAILURES_BEFORE_RECONFIGURING
    THEN ConnectLoop(c, e, WII_LIB_MAX_CONNECTION_ATTEMPTS)
    ELSE Ret([c EXCEPT !.d.status = WII_LIB_DEVICE_STATUS_ACTIVE], WII_LIB_RC_SUCCESS)

\* Faulty variant: the device is disabled when the count has reached the threshold.
DoMaintenance_DisablingAtThreshold(c, e) ==
    IF c.d.status = WII_LIB_DEVICE_STATUS_STRUCTURE_NOT_DEFINED
    THEN Ret(c, WII_LIB_RC_TARGET_STRUCTURE_NOT_DEFINED)
    ELSE IF c.d.failedParamQueryCount >= WII_LIB_MAX_FAILURES_BEFORE_DISABLING
    THEN Ret([c EXCEPT !.d.status = WII_LIB_DEVICE_STATUS_DISABLED],
             WII_LIB_RC_DEVICE_DISABLED)
    ELSE IF c.d.failedParamQueryCount > WII_LIB_MAX_FAILURES_BEFORE_RECONFIGURING
    THEN WiiLib_ConfigureDevice([c EXCEPT !.d.status = WII_LIB_DEVICE_STATUS_CONFIGURING], e)
    ELSE IF c.d.status = WII_LIB_DEVICE_STATUS_NOT_INITIALIZED
    THEN ConnectLoop(c, e, WII_LIB_MAX_CONNECTION_ATTEMPTS)
    ELSE Ret([c EXCEPT !.d.status = WII_LIB_DEVICE_STATUS_ACTIVE], WII_LIB_RC_SUCCESS)

\* Faulty variant: a count above the disabling threshold only reconfigures.
DoMaintenance_NeverDisabling(c, e) ==
    IF c.d.status = WII_LIB_DEVICE_STATUS_STRUCTURE_NOT_DEFINED
    THEN Ret(c, WII_LIB_RC_TARGET_STRUCTURE_NOT_DEFINED)
    ELSE IF c.d.failedParamQueryCount > WII_LIB_MAX_FAILURES_BEFORE_RECONFIGURING
    THEN WiiLib_ConfigureDevice([c EXCEPT !.d.status = WII_LIB_DEVICE_STATUS_CONFIGURING], e)
    ELSE IF c.d.status = WII_LIB_DEVICE_STATUS_NOT_INITIALIZED
    THEN ConnectLoop(c, e, WII_LIB_MAX_CONNECTION_ATTEMPTS)
    ELSE Ret([c EXCEPT !.d.status = WII_LIB_DEVICE_STATUS_ACTIVE], WII_LIB_RC_SUCCESS)

WiiLib_DoMaintenance(c, e) ==
    IF c.d.status = WII_LIB_DEVICE_STATUS_STRUCTURE_NOT_DEFINED
    THEN Ret(c, WII_LIB_RC_TARGET_STRUCTURE_NOT_DEFINED)
    ELSE IF c.d.failedParamQueryCount > WII_LIB_MAX_FAILURES_BEFORE_DISABLING
    THEN Ret([c EXCEPT !.d.status = WII_LIB_DEVICE_STATUS_DISABLED],
             WII_LIB_RC_DEVICE_DISABLED)
    ELSE IF c.d.failedParamQueryCount > WII_LIB_MAX_FAILURES_BEFORE_RECONFIGURING
    THEN WiiLib_ConfigureDevice([c EXCEPT !.d.status = WII_LIB_DEVICE_STATUS_CONFIGURING], e)
    ELSE IF c.d.status = WII_LIB_DEVICE_STATUS_NOT_INITIALIZED
    THEN ConnectLoop(c, e, WII_LIB_MAX_CONNECTION_ATTEMPTS)
    ELSE Ret([c EXCEPT !.d.status = WII_LIB_DEVICE_STATUS_ACTIVE], WII_LIB_RC_SUCCESS)

(***************************************************************************)
(* WiiLib_EnableRelativePosition / WiiLib_DisableRelativePosition          *)
(* (wii_lib.c:429-452).                                                    *)
(***************************************************************************)
WiiLib_EnableRelativePosition(c) ==
    Ret([c EXCEPT !.d.calculateRelativePosition = 1], WII_LIB_RC_SUCCESS)

WiiLib_DisableRelativePosition(c) ==
    Ret([c EXCEPT !.d.calculateRelativePosition = 0], WII_LIB_RC_SUCCESS)

(***************************************************************************)
(* WiiLib_Init (wii_lib.c:49-111).  WII_LIB_DEFAULT_CALCULATE_RELATIVE_    *)
(* POSITION is TRUE (wii_lib.h:43), so the #if arm that runs is            *)
(* WiiLib_EnableRelativePosition.  I2C_InitPort (i2c.c:54-64) always       *)
(* returns I2C_RC_SUCCESS.                                                 *)
(***************************************************************************)
\* Faulty variant: failedParamQueryCount and status are not reset.
Init_WithoutReset(c, e, target, decryptData) ==
    LET c1 == WiiLib_EnableRelativePosition(c)
        c2 == [c1 EXCEPT !.d.target = target,
                         !.d.dataEncrypted = IF decryptData THEN 0 ELSE 1,
                         !.d.addr = WII_LIB_I2C_ADDR_STANDARD]
    IN WiiLib_DoMaintenance(Delay_Ms(c2, WII_LIB_DELAY_I2C_SETTLE_TIME_MS), e)

WiiLib_Init(c, e, target, decryptData) ==
    LET c1 == WiiLib_EnableRelativePosition(c)
        c2 == [c1 EXCEPT !.d.target = target,
                         !.d.dataEncrypted = IF decryptData THEN 0 ELSE 1]
        addr == IF target = WII_LIB_TARGET_DEVICE_MOTION_PLUS
                THEN WII_LIB_I2C_ADDR_WII_MOTION_PLUS
                ELSE WII_LIB_I2C_ADDR_STANDARD
        c3 == Delay_Ms([c2 EXCEPT !.d.addr = addr], WII_LIB_DELAY_I2C_SETTLE_TIME_MS)
    IN IF target \notin {WII_LIB_TARGET_DEVICE_UNKNOWN,
                         WII_LIB_TARGET_DEVICE_NUNCHUCK,
                         WII_LIB_TARGET_DEVICE_CLASSIC_CONTROLLER,
                         WII_LIB_TARGET_DEVICE_MOTION_PLUS_PASS_NUNCHUCK,
                         WII_LIB_TARGET_DEVICE_MOTION_PLUS_PASS_CLASSIC,
                         WII_LIB_TARGET_DEVICE_MOTION_PLUS}
       THEN Ret(c2, WII_LIB_RC_UNSUPPORTED_DEVICE)
       ELSE WiiLib_DoMaintenance(
                [c3 EXCEPT !.d.failedParamQueryCount = 0,
                           !.d.status = WII_LIB_DEVICE_STATUS_NOT_INITIALIZED], e)

(***************************************************************************)
(* Inputs.                                                                 *)
(***************************************************************************)
\* the longest finite run of failing bus operations
MaxFailRun == 4
\* queries are issued while failedParamQueryCount is at most MaxCount
MaxCount == 22

ID_OTHER == <<0, 0, 164, 32, 3, 3>>

REPORT_A == <<127, 130, 128, 128, 128, 252>>
REPORT_B == <<32, 32, 0, 0, 255, 239>>

PARAM_UNDEFINED == 16

Params == {WII_LIB_PARAM_STATUS, WII_LIB_PARAM_RAW_DATA, WII_LIB_PARAM_DEVICE_TYPE,
           PARAM_UNDEFINED}

Modes == {"nack", "notready"}

Copies == {"move", "forward"}

AllOk == [ok |-> 0, fail |-> 0, mode |-> "nack"]

\* the ways a peripheral can answer a call that issues at most maxOps bus
\* operations: all of them, or all but a run of them that starts at the a-th and
\* lasts for one operation or for ever
Mocks(maxOps) ==
    {AllOk} \cup {[ok |-> a, fail |-> 1, mode |-> m] : a \in 0..(maxOps - 1), m \in Modes}
            \cup {[ok |-> a, fail |-> Forever, mode |-> m] : a \in 0..(maxOps - 2),
                                                             m \in Modes}

Env(mock, id, report, copy) ==
    [ok |-> mock.ok, fail |-> mock.fail, mode |-> mock.mode, id |-> id,
     report |-> report, urc |-> WII_LIB_RC_SUCCESS, copy |-> copy]

\* bus operations of one WiiLib_ConfigureDevice, one STATUS query, one connect attempt
ConfigOps(d) == IF d.dataEncrypted # 0 THEN 1 ELSE 2

StatusOps(d) == IF d.target \in {WII_LIB_TARGET_DEVICE_CLASSIC_CONTROLLER,
                                 WII_LIB_TARGET_DEVICE_MOTION_PLUS_PASS_CLASSIC}
                THEN ConfigOps(d) + 1 ELSE 1

ConnectOps(d) == ConfigOps(d) + 1 + StatusOps(d)

\* a peripheral that answers, one that never does, one that is never ready
InitMocks == {AllOk, [ok |-> 0, fail |-> Forever, mode |-> "nack"],
              [ok |-> 0, fail |-> Forever, mode |-> "notready"]}

\* a failure at any one operation of the first attempt, and runs of 2..MaxFailRun
\* unacknowledged operations from the first on
ConnectMocks(d) ==
    Mocks(ConnectOps(d)) \cup {[ok |-> 0, fail |-> f, mode |-> "nack"] : f \in 2..MaxFailRun}

\* w: the world of a specification: the ids and reports of its peripherals, the
\* arguments of WiiLib_Init, the cap on failedParamQueryCount and whether the runs
\* of failed polls are tracked in hist, and whether WiiLib_Init is called again
StatusEnvs(w, d) == {Env(m, WII_LIB_ID_NUNCHUCK, r, "move") :
                         m \in Mocks(StatusOps(d)), r \in w.reports}

SetHomeEnvs(w, d) == {Env(m, WII_LIB_ID_NUNCHUCK, r, k) :
                          m \in Mocks(StatusOps(d)), r \in w.reports, k \in Copies}

QueryEnvs(w, d, p) ==
    IF p = WII_LIB_PARAM_STATUS THEN StatusEnvs(w, d)
    ELSE IF p = WII_LIB_PARAM_DEVICE_TYPE
    THEN {Env(m, i, REPORT_A, "move") : m \in Mocks(1), i \in w.ids}
    ELSE IF p = WII_LIB_PARAM_RAW_DATA
    THEN {Env(m, WII_LIB_ID_NUNCHUCK, r, "move") : m \in Mocks(1), r \in w.reports}
    ELSE {Env(AllOk, WII_LIB_ID_NUNCHUCK, REPORT_A, "move")}

ConnectEnvs(w, mocks) == {Env(m, i, r, k) : m \in mocks, i \in w.ids, r \in w.reports,
                                            k \in Copies}

MaintenanceEnvs(w, d) ==
    IF d.failedParamQueryCount > WII_LIB_MAX_FAILURES_BEFORE_DISABLING
    THEN {Env(AllOk, WII_LIB_ID_NUNCHUCK, REPORT_A, "move")}
    ELSE IF d.failedParamQueryCount > WII_LIB_MAX_FAILURES_BEFORE_RECONFIGURING
    THEN {Env(m, WII_LIB_ID_NUNCHUCK, REPORT_A, "move") : m \in Mocks(ConfigOps(d))}
    ELSE IF d.status = WII_LIB_DEVICE_STATUS_NOT_INITIALIZED
    THEN ConnectEnvs(w, ConnectMocks(d))
    ELSE {Env(AllOk, WII_LIB_ID_NUNCHUCK, REPORT_A, "move")}

(***************************************************************************)
(* hist: the run of failed polls in progress.  A run starts in a state     *)
(* with status Active and failedParamQueryCount 0; n counts the polls      *)
(* since then, all of which returned I2C_ERROR or DATA_RECEIVED_IS_INVALID,*)
(* with calls of WiiLib_DoMaintenance allowed between them.  pure: every   *)
(* one of them returned I2C_ERROR and no other call was made in between.   *)
(* writes: a WiiLib_DoMaintenance of the run issued a bus operation.       *)
(* same: interfaceCurrent is as it was when the run started.  n = -1 when  *)
(* no run is in progress.                                                  *)
(***************************************************************************)
NoRun == [n |-> -1, pure |-> TRUE, writes |-> FALSE, same |-> TRUE]

RunStart(d) == d.status = WII_LIB_DEVICE_STATUS_ACTIVE /\ d.failedParamQueryCount = 0

IsBusEvent(x) == x.ev \in {"write", "query"}

BusEvents(l) == SelectSeq(l, IsBusEvent)

NextHist(h, d, c, name) ==
    LET kept == h.same /\ c.d.interfaceCurrent = d.interfaceCurrent
    IN IF name = "poll" /\ h.n >= 0
          /\ c.rc \in {WII_LIB_RC_I2C_ERROR, WII_LIB_RC_DATA_RECEIVED_IS_INVALID}
       THEN [h EXCEPT !.n = @ + 1, !.pure = @ /\ c.rc = WII_LIB_RC_I2C_ERROR,
                      !.same = kept]
       ELSE IF name = "maintenance" /\ h.n > 0
       THEN [h EXCEPT !.pure = FALSE,
                      !.writes = @ \/ BusEvents(c.log) # <<>>,
                      !.same = kept]
       ELSE IF RunStart(c.d)
       THEN [NoRun EXCEPT !.n = 0]
       ELSE NoRun

Return(w, name, c) ==
    /\ device' = c.d
    /\ op' = name
    /\ rc' = c.rc
    /\ log' = c.log
    /\ hist' = IF w.track THEN NextHist(hist, device, c, name) ELSE NoRun

Init ==
    /\ device = ZeroDevice
    /\ op = "none"
    /\ rc = WII_LIB_RC_SUCCESS
    /\ log = <<>>
    /\ hist = NoRun

Called == op # "none"

\* The application initialises the device once at start and, in a world with
\* reinit, again whenever the device is not Active.
Initialize(w) ==
    /\ ~Called \/ (w.reinit /\ device.status # WII_LIB_DEVICE_STATUS_ACTIVE)
    /\ \E a \in w.initArgs :
        \E e \in ConnectEnvs(w, InitMocks) :
            Return(w, "init", WiiLib_Init(NewCall(device), e, a[1], a[2]))

DoMaintenance(w) ==
    /\ Called
    /\ \E e \in MaintenanceEnvs(w, device) :
        Return(w, "maintenance", WiiLib_DoMaintenance(NewCall(device), e))

QueryParameter(w) ==
    /\ Called
    /\ device.failedParamQueryCount <= w.maxCount
    /\ \E p \in Params :
        \E e \in QueryEnvs(w, device, p) :
            Return(w, "query", WiiLib_QueryParameter(NewCall(device), e, p))

PollStatus(w) ==
    /\ Called
    /\ device.failedParamQueryCount <= w.maxCount
    /\ \E e \in StatusEnvs(w, device) :
        Return(w, "poll", WiiLib_PollStatus(NewCall(device), e))

SetNewHomePosition(w) ==
    /\ Called
    /\ device.failedParamQueryCount <= w.maxCount
    /\ \E e \in SetHomeEnvs(w, device) :
        Return(w, "sethome", WiiLib_SetNewHomePosition(NewCall(device), e))

EnableRelativePosition(w) ==
    /\ Called
    /\ Return(w, "enable", WiiLib_EnableRelativePosition(NewCall(device)))

DisableRelativePosition(w) ==
    /\ Called
    /\ Return(w, "disable", WiiLib_DisableRelativePosition(NewCall(device)))

(***************************************************************************)
(* Spec: a Nunchuck driver and a Nunchuck that answers, fails to           *)
(* acknowledge or is not ready, with the failure counter taken past both   *)
(* thresholds.                                                             *)
(***************************************************************************)
World == [ids |-> {WII_LIB_ID_NUNCHUCK},
          reports |-> {REPORT_A},
          initArgs |-> {<<WII_LIB_TARGET_DEVICE_NUNCHUCK, TRUE>>},
          maxCount |-> MaxCount,
          track |-> FALSE,
          reinit |-> TRUE]

Next ==
    \/ Initialize(World)
    \/ DoMaintenance(World)
    \/ QueryParameter(World)
    \/ PollStatus(World)
    \/ SetNewHomePosition(World)
    \/ EnableRelativePosition(World)
    \/ DisableRelativePosition(World)

Spec == Init /\ [][Next]_vars

(***************************************************************************)
(* SpecPolls: an application that initialises a Nunchuck driver, polls it  *)
(* and calls WiiLib_DoMaintenance, with the runs of failed polls tracked.  *)
(***************************************************************************)
PollWorld == [ids |-> {WII_LIB_ID_NUNCHUCK},
              reports |-> {REPORT_A, REPORT_B},
              initArgs |-> {<<WII_LIB_TARGET_DEVICE_NUNCHUCK, TRUE>>},
              maxCount |-> MaxCount,
              track |-> TRUE,
              reinit |-> TRUE]

NextPolls ==
    \/ Initialize(PollWorld)
    \/ PollStatus(PollWorld)
    \/ DoMaintenance(PollWorld)

SpecPolls == Init /\ [][NextPolls]_vars

(***************************************************************************)
(* SpecConnect: drivers for a Nunchuck, a Classic Controller and "whatever *)
(* is attached", with clear-text and scrambled reports, facing a Nunchuck, *)
(* a Classic Controller or an unlisted peripheral that fails at any        *)
(* operation of a connect attempt; polls are issued while                  *)
(* failedParamQueryCount is at most MaxCountConnect.                       *)
(***************************************************************************)
MaxCountConnect == 1

ConnectWorld == [ids |-> {WII_LIB_ID_NUNCHUCK, WII_LIB_ID_CLASSIC_CONTROLLER, ID_OTHER},
                 reports |-> {REPORT_A},
                 initArgs |-> {<<WII_LIB_TARGET_DEVICE_NUNCHUCK, TRUE>>,
                               <<WII_LIB_TARGET_DEVICE_NUNCHUCK, FALSE>>,
                               <<WII_LIB_TARGET_DEVICE_CLASSIC_CONTROLLER, TRUE>>,
                               <<WII_LIB_TARGET_DEVICE_UNKNOWN, TRUE>>},
                 maxCount |-> MaxCountConnect,
                 track |-> FALSE,
                 reinit |-> FALSE]

NextConnect ==
    \/ Initialize(ConnectWorld)
    \/ DoMaintenance(ConnectWorld)
    \/ PollStatus(ConnectWorld)
    \/ DisableRelativePosition(ConnectWorld)
    \/ EnableRelativePosition(ConnectWorld)

SpecConnect == Init /\ [][NextConnect]_vars

(***************************************************************************)
(* SpecTrack: drivers for a Nunchuck and a Classic Controller facing a     *)
(* peripheral of any kind with a decoder or an unlisted one, whose status  *)
(* report changes from poll to poll; the                                   *)
(* application polls, sets the home position and switches the relative     *)
(* positions on and off.  Polls are issued while failedParamQueryCount is  *)
(* at most MaxCountTrack.                                                  *)
(***************************************************************************)
MaxCountTrack == 1

TrackWorld == [ids |-> {WII_LIB_ID_NUNCHUCK, WII_LIB_ID_CLASSIC_CONTROLLER,
                        WII_LIB_ID_WII_MOTION_PLUS_PASS_NUNCHUCK,
                        WII_LIB_ID_WII_MOTION_PLUS_PASS_CLASSIC, ID_OTHER},
               reports |-> {REPORT_A, REPORT_B},
               initArgs |-> {<<WII_LIB_TARGET_DEVICE_NUNCHUCK, TRUE>>,
                             <<WII_LIB_TARGET_DEVICE_CLASSIC_CONTROLLER, TRUE>>},
               maxCount |-> MaxCountTrack,
               track |-> FALSE,
               reinit |-> FALSE]

NextTrack ==
    \/ Initialize(TrackWorld)
    \/ PollStatus(TrackWorld)
    \/ SetNewHomePosition(TrackWorld)
    \/ EnableRelativePosition(TrackWorld)
    \/ DisableRelativePosition(TrackWorld)

SpecTrack == Init /\ [][NextTrack]_vars

(***************************************************************************)
(* The bus operations of i2c.c, byte by byte.  A call threads a context    *)
(* [log, rc, acked, n, rx]: the bus conditions, bytes and delays issued so *)
(* far, the operation's returnCode, the module's "last byte was            *)
(* acknowledged" flag, the number of bytes sent so far and the bytes read  *)
(* so far.  The peripheral p acknowledges the bytes sent to it, counted    *)
(* from 0 with the address bytes included, except nackRun of them from the *)
(* nackAt-th on; the module's receiver refuses to start (overflow) at the  *)
(* overflow-th byte to be read, never if 0.  The calls into the Microchip  *)
(* peripheral library that set a bus condition are taken to succeed, so    *)
(* the while loops around I2C_StartTransfer run once.  The driver sets     *)
(* addrLength to I2C_ADDR_LEN_7_BITS (wii_lib.c:76): I2C_SendAddr sends    *)
(* one byte, the address shifted left with the read/write bit.             *)
(***************************************************************************)
I2C_RC_RECEIVE_OVERFLOW == 5
I2C_ACK_MODE_NACK == 0
I2C_ACK_MODE_ACK == 1
I2C_DELAY_POST_SEND_MS == 0
I2C_DELAY_POST_READ_MS == 10
I2C_DELAY_BETWEEN_TX_RX_MS == 1

\* the first event of the log of a bus operation: the call and its arguments
NewBus(call) == [log |-> <<call>>, rc |-> I2C_RC_SUCCESS, acked |-> TRUE, n |-> 0,
                 rx |-> <<>>]

\* I2C_StartTransfer (i2c.c:255-274)
I2C_StartTransfer(b, restart) ==
    [b EXCEPT !.log = Append(@, [ev |-> IF restart THEN "restart" ELSE "start"])]

\* Faulty variant: the STOP condition is set only after a delay.
StopTransfer_OnlyAfterDelay(b, delay_Ms) ==
    IF delay_Ms > 0
    THEN [b EXCEPT !.log = Append(Append(@, [ev |-> "delay", ms |-> delay_Ms]),
                                  [ev |-> "stop"])]
    ELSE b

\* I2C_StopTransfer (i2c.c:293-303)
I2C_StopTransfer(b, delay_Ms) ==
    [b EXCEPT !.log = Append(IF delay_Ms > 0
                             THEN Append(@, [ev |-> "delay", ms |-> delay_Ms])
                             ELSE @,
                             [ev |-> "stop"])]

\* I2C_SendByte (i2c.c:321-335); no caller looks at the value it returns
I2C_SendByte(b, p, data) ==
    [b EXCEPT !.log = Append(@, [ev |-> "send", data |-> data,
                                acked |-> ~(p.nackAt <= b.n /\ b.n < p.nackAt + p.nackRun)]),
              !.acked = ~(p.nackAt <= b.n /\ b.n < p.nackAt + p.nackRun),
              !.n = @ + 1]

\* I2C_SendAddr (i2c.c:397-419), 7-bit arm; no caller looks at the value it returns
I2C_SendAddr(b, p, addr, isReadRequest) ==
    I2C_SendByte(b, p, (addr * 2 + (IF isReadRequest THEN 1 ELSE 0)) % 256)

\* I2C_ReadByte (i2c.c:359-376): ack is the polarity the byte is acknowledged
\* with, -1 when it is not acknowledged at all
I2C_ReadByte(b, p, ackByte, ackMode) ==
    IF p.overflow = Len(b.rx) + 1
    THEN [b EXCEPT !.rc = I2C_RC_RECEIVE_OVERFLOW]
    ELSE [b EXCEPT !.log = Append(@, [ev |-> "read", data |-> 160 + Len(b.rx),
                                     ack |-> IF ackByte THEN ackMode ELSE -1]),
                   !.rx = Append(@, 160 + Len(b.rx)),
                   !.rc = I2C_RC_SUCCESS]

\* b: the call after I2C_SendByte in a transmit loop (i2c.c:99-100, 196-197)
AckChecked(b, ackRequired) ==
    IF ackRequired /\ ~b.acked THEN [b EXCEPT !.rc = I2C_RC_NO_ACK] ELSE b

\* the transmit loop (i2c.c:95-102, 192-199) entered with index
RECURSIVE SendLoop(_, _, _, _, _)
SendLoop(b, p, data, index, ackRequired) ==
    IF b.rc = I2C_RC_SUCCESS /\ Len(data) > index
    THEN SendLoop(AckChecked(I2C_SendByte(b, p, data[index + 1]), ackRequired),
                  p, data, index + 1, ackRequired)
    ELSE b

\* the receive loop (i2c.c:140-143, 218-221) entered with index
RECURSIVE ReadLoop(_, _, _, _, _, _)
ReadLoop(b, p, len, index, ack, ackMode) ==
    IF b.rc = I2C_RC_SUCCESS /\ len > index
    THEN ReadLoop(I2C_ReadByte(b, p, ack, ackMode), p, len, index + 1, ack, ackMode)
    ELSE b

\* I2CReceiverEnable( module, FALSE ) (i2c.c:147, 223)
ReceiverOff(b) == [b EXCEPT !.log = Append(@, [ev |-> "rxoff"])]

\* I2C_Transmit (i2c.c:86-107) on the bus
I2C_Transmit_Bus(b, p, addr, data, ackRequired) ==
    I2C_StopTransfer(
        SendLoop(I2C_SendAddr(I2C_StartTransfer(b, FALSE), p, addr, FALSE),
                 p, data, 0, ackRequired),
        I2C_DELAY_POST_SEND_MS)

\* I2C_Receive (i2c.c:131-150)
I2C_Receive(b, p, addr, len, ackMessages, ackMode) ==
    ReceiverOff(
        I2C_StopTransfer(
            ReadLoop(I2C_SendAddr(I2C_StartTransfer(b, FALSE), p, addr, TRUE),
                     p, len, 0, ackMessages, ackMode),
            I2C_DELAY_POST_READ_MS))

\* Faulty variant: the read phase follows the write phase without a STOP.
TxRxReadPhase_WithoutStop(b, p, addr, lenRx, ack, ackMode, useRepeatedStart) ==
    IF b.rc = I2C_RC_SUCCESS
    THEN ReceiverOff(
             ReadLoop(
                 I2C_SendAddr(
                     I2C_StartTransfer(Delay_Ms(b, I2C_DELAY_BETWEEN_TX_RX_MS), FALSE),
                     p, addr, TRUE),
                 p, lenRx, 0, ack, ackMode))
    ELSE b

\* b: the call after the transmit loop of I2C_TxRx (i2c.c:201-224)
TxRxReadPhase(b, p, addr, lenRx, ack, ackMode, useRepeatedStart) ==
    IF b.rc = I2C_RC_SUCCESS
    THEN ReceiverOff(
             ReadLoop(
                 I2C_SendAddr(
                     IF useRepeatedStart
                     THEN I2C_StartTransfer(Delay_Ms(b, 1), TRUE)
                     ELSE I2C_StartTransfer(
                              Delay_Ms(I2C_StopTransfer(b, I2C_DELAY_POST_SEND_MS), 1),
                              FALSE),
                     p, addr, TRUE),
                 p, lenRx, 0, ack, ackMode))
    ELSE b

\* I2C_TxRx (i2c.c:182-229) on the bus
I2C_TxRx_Bus(b, p, addr, dataTx, lenRx, ack, ackMode, useRepeatedStart) ==
    I2C_StopTransfer(
        TxRxReadPhase(
            SendLoop(I2C_SendAddr(I2C_StartTransfer(b, FALSE), p, addr, FALSE),
                     p, dataTx, 0, ack),
            p, addr, lenRx, ack, ackMode, useRepeatedStart),
        I2C_DELAY_POST_READ_MS)

(***************************************************************************)
(* SpecBus: an application that calls the three bus operations with        *)
(* payloads of 0..MaxLen bytes, with and without acknowledgement, both     *)
(* acknowledge polarities and both ways of going from write to read,       *)
(* against a peripheral that acknowledges everything, misses one byte, or  *)
(* misses every byte from some byte on, and a receiver that overflows.     *)
(* The polarity is an input only where bytes are acknowledged.             *)
(***************************************************************************)
MaxLen == 2

BusPeripherals ==
    {[nackAt |-> 0, nackRun |-> 0, overflow |-> o] : o \in 0..MaxLen}
        \cup {[nackAt |-> a, nackRun |-> r, overflow |-> 0] :
                  a \in 0..(MaxLen + 1), r \in {1, Forever}}

BusCall(fn, lenTx, lenRx, ack, ackMode, restart) ==
    NewBus([ev |-> "call", fn |-> fn, lenTx |-> lenTx, lenRx |-> lenRx, ack |-> ack,
            ackMode |-> ackMode, restart |-> restart])

\* the first len bytes of the payload the application sends
Payload(len) == [i \in 1..len |-> 240 + i]

BusReturn(name, b) ==
    /\ op' = name
    /\ rc' = b.rc
    /\ log' = b.log
    /\ UNCHANGED <<device, hist>>

Transmit ==
    \E len \in 0..MaxLen, ack \in BOOLEAN, p \in BusPeripherals :
        /\ p.overflow = 0 /\ p.nackAt <= len
        /\ BusReturn("transmit",
                     I2C_Transmit_Bus(BusCall("transmit", len, 0, ack, I2C_ACK_MODE_ACK, FALSE),
                                      p, WII_LIB_I2C_ADDR_STANDARD, Payload(len), ack))

Receive ==
    \E len \in 0..MaxLen, ack \in BOOLEAN, p \in BusPeripherals,
       ackMode \in {I2C_ACK_MODE_NACK, I2C_ACK_MODE_ACK} :
        /\ p.nackAt = 0
        /\ ack \/ ackMode = I2C_ACK_MODE_ACK
        /\ BusReturn("receive",
                     I2C_Receive(BusCall("receive", 0, len, ack, ackMode, FALSE),
                                 p, WII_LIB_I2C_ADDR_STANDARD, len, ack, ackMode))

TxRx ==
    \E lenTx \in 0..MaxLen, lenRx \in 0..MaxLen, ack \in BOOLEAN, p \in BusPeripherals,
       ackMode \in {I2C_ACK_MODE_NACK, I2C_ACK_MODE_ACK}, restart \in BOOLEAN :
        /\ p.nackAt <= lenTx + 1
        /\ ack \/ ackMode = I2C_ACK_MODE_ACK
        /\ BusReturn("txrx",
                     I2C_TxRx_Bus(BusCall("txrx", lenTx, lenRx, ack, ackMode, restart),
                                  p, WII_LIB_I2C_ADDR_STANDARD, Payload(lenTx), lenRx, ack,
                                  ackMode, restart))

NextBus == Transmit \/ Receive \/ TxRx

SpecBus == Init /\ [][NextBus]_vars

(***************************************************************************)
(* SpecDecode: a Nunchuck driver facing a Nunchuck, directly or through a  *)
(* Motion Plus, whose status report takes the values of DecodeReports from *)
(* poll to poll.                                                           *)
(***************************************************************************)
DecodeReports ==
    {REPORT_A, REPORT_B}
        \cup {<<z, 255 - z, 255 - z, z, z, f>> : z \in {2, 129, 255},
                                                  f \in {0, 4, 16, 64, 171, 255}}

DecodeWorld == [ids |-> {WII_LIB_ID_NUNCHUCK, WII_LIB_ID_WII_MOTION_PLUS_PASS_NUNCHUCK},
                reports |-> DecodeReports,
                initArgs |-> {<<WII_LIB_TARGET_DEVICE_NUNCHUCK, TRUE>>},
                maxCount |-> MaxCountTrack,
                track |-> FALSE,
                reinit |-> FALSE]

NextDecode ==
    \/ Initialize(DecodeWorld)
    \/ PollStatus(DecodeWorld)

SpecDecode == Init /\ [][NextDecode]_vars

(***************************************************************************)
(* SpecClassic: a Classic Controller driver facing a Classic Controller,   *)
(* directly or through a Motion Plus, whose status report takes the values *)
(* of ClassicReports from poll to poll.                                    *)
(***************************************************************************)
ClassicReports ==
    {<<32, 32, 0, 0, 255, 255>>}
        \cup {<<a, 255 - a, a, 255 - a, g, 255 - g>> : a \in {2, 63, 170, 213},
                                                        g \in {0, 90, 165}}

ClassicWorld == [ids |-> {WII_LIB_ID_CLASSIC_CONTROLLER, WII_LIB_ID_WII_MOTION_PLUS_PASS_CLASSIC},
                 reports |-> ClassicReports,
                 initArgs |-> {<<WII_LIB_TARGET_DEVICE_CLASSIC_CONTROLLER, TRUE>>},
                 maxCount |-> MaxCountTrack,
                 track |-> FALSE,
                 reinit |-> FALSE]

NextClassic ==
    \/ Initialize(ClassicWorld)
    \/ PollStatus(ClassicWorld)

SpecClassic == Init /\ [][NextClassic]_vars

(***************************************************************************)
(* SpecWrap: an application that initialises a Nunchuck and then only      *)
(* polls it, never calling WiiLib_DoMaintenance, while the peripheral      *)
(* answers, stays silent or sends a report of all 0xFF.  hist.n counts the *)
(* failed polls of the run in progress; runs of up to MaxCountWrap + 1     *)
(* failed polls are followed.                                              *)
(***************************************************************************)
MaxCountWrap == 256

WrapWorld == [ids |-> {WII_LIB_ID_NUNCHUCK},
              reports |-> {REPORT_A, AllFF(WII_LIB_ID_LENGTH)},
              initArgs |-> {<<WII_LIB_TARGET_DEVICE_NUNCHUCK, TRUE>>},
              maxCount |-> MaxCountWrap,
              track |-> TRUE,
              reinit |-> FALSE]

PollStatusInRun ==
    /\ hist.n <= MaxCountWrap
    /\ PollStatus(WrapWorld)

NextWrap ==
    \/ Initialize(WrapWorld)
    \/ PollStatusInRun

SpecWrap == Init /\ [][NextWrap]_vars

(***************************************************************************)
(* SpecLoop: the application loop of a program whose peripheral is absent. *)
(* After WiiLib_Init the program calls WiiLib_PollStatus and               *)
(* WiiLib_DoMaintenance in turn, for ever; every bus operation of these    *)
(* calls fails, in one of the two ways.  The loop never stops: the         *)
(* specification is weakly fair to the steps of the loop.                  *)
(***************************************************************************)
LoopWorld == [ids |-> {WII_LIB_ID_NUNCHUCK},
              reports |-> {REPORT_A},
              initArgs |-> {<<WII_LIB_TARGET_DEVICE_NUNCHUCK, TRUE>>,
                            <<WII_LIB_TARGET_DEVICE_NUNCHUCK, FALSE>>,
                            <<WII_LIB_TARGET_DEVICE_CLASSIC_CONTROLLER, TRUE>>},
              maxCount |-> MaxCount,
              track |-> FALSE,
              reinit |-> FALSE]

\* the peripheral never answers
NeverFound == ConnectEnvs(LoopWorld, InitMocks \ {AllOk})

LoopPoll ==
    /\ op \in {"init", "maintenance"}
    /\ \E e \in NeverFound :
        Return(LoopWorld, "poll", WiiLib_PollStatus(NewCall(device), e))

LoopMaintenance ==
    /\ op = "poll"
    /\ \E e \in NeverFound :
        Return(LoopWorld, "maintenance", WiiLib_DoMaintenance(NewCall(device), e))

NextLoop ==
    \/ Initialize(LoopWorld)
    \/ LoopPoll
    \/ LoopMaintenance

\* one more call of the loop returns: WiiLib_PollStatus and WiiLib_DoMaintenance
\* always return, so such a step is possible whenever WiiLib_Init has been called
LoopStep ==
    /\ Called
    /\ op' \in {"poll", "maintenance"}
    /\ op' # op

SpecLoop == Init /\ [][NextLoop]_vars /\ WF_op(LoopStep)

(***************************************************************************)
(* Properties.  A property of one call is stated of the function applied   *)
(* to the device of every reachable state with every peripheral of the     *)
(* specification.                                                          *)
(***************************************************************************)
Queried == {WII_LIB_PARAM_STATUS, WII_LIB_PARAM_RAW_DATA, WII_LIB_PARAM_DEVICE_TYPE}

\* the call c returned DEVICE_DISABLED, issued no bus operation and no delay, and
\* left the device d as it was
Rejected(d, c) ==
    /\ c.rc = WII_LIB_RC_DEVICE_DISABLED
    /\ c.log = <<>>
    /\ c.n = 0
    /\ c.d = d

\* C1: when the status is Disabled, WiiLib_QueryParameter with any parameter, and
\* so WiiLib_PollStatus and (relative position enabled) WiiLib_SetNewHomePosition,
\* returns DEVICE_DISABLED without a bus operation and leaves the whole device
\* structure (counter, payload, snapshots, status) unchanged.
C1_DisabledRejectsQueries ==
    device.status = WII_LIB_DEVICE_STATUS_DISABLED =>
        /\ \A p \in Params : \A e \in QueryEnvs(World, device, p) :
               Rejected(device, WiiLib_QueryParameter(NewCall(device), e, p))
        /\ \A e \in StatusEnvs(World, device) :
               Rejected(device, WiiLib_PollStatus(NewCall(device), e))
        /\ device.calculateRelativePosition # 0 =>
               \A e \in SetHomeEnvs(World, device) :
                   Rejected(device, WiiLib_SetNewHomePosition(NewCall(device), e))
        /\ op \in {"query", "poll"} => rc = WII_LIB_RC_DEVICE_DISABLED /\ log = <<>>

C1_Witness ==
    /\ device.status = WII_LIB_DEVICE_STATUS_DISABLED
    /\ device.calculateRelativePosition # 0
    /\ op = "sethome"
    /\ rc = WII_LIB_RC_DEVICE_DISABLED
    /\ device.interfaceCurrent # ZeroInterface

\* C2: every query of STATUS, RAW_DATA or DEVICE_TYPE that returns SUCCESS leaves
\* failedParamQueryCount at 0, whatever it was before the call.
C2_SuccessResetsCount ==
    /\ Called =>
           \A p \in Queried : \A e \in QueryEnvs(World, device, p) :
               LET c == WiiLib_QueryParameter(NewCall(device), e, p)
               IN c.rc = WII_LIB_RC_SUCCESS => c.d.failedParamQueryCount = 0
    /\ op \in {"query", "poll"} /\ rc = WII_LIB_RC_SUCCESS =>
           device.failedParamQueryCount = 0

C2_Witness ==
    /\ device.failedParamQueryCount = WII_LIB_MAX_FAILURES_BEFORE_DISABLING
    /\ \A p \in Queried : \E e \in QueryEnvs(World, device, p) :
           LET c == WiiLib_QueryParameter(NewCall(device), e, p)
           IN c.rc = WII_LIB_RC_SUCCESS /\ c.d.failedParamQueryCount = 0

\* the data of the writes of WiiLib_ConfigureDevice, in order
ConfigWrites(d) == IF d.dataEncrypted # 0 THEN << <<64, 0>> >>
                   ELSE << <<240, 85>>, <<251, 0>> >>

\* the bus events of the call c are the writes of WiiLib_ConfigureDevice for the
\* device d, in order, up to the first that is not acknowledged, and c returns
\* SUCCESS exactly when all of them were acknowledged
Reconfigured(d, c) ==
    LET b == BusEvents(c.log)
    IN /\ Len(b) \in 1..Len(ConfigWrites(d))
       /\ \A i \in 1..Len(b) :
              /\ b[i].ev = "write"
              /\ b[i].data = ConfigWrites(d)[i]
              /\ b[i].ok = (i < Len(b) \/ c.rc = WII_LIB_RC_SUCCESS)
       /\ c.rc = WII_LIB_RC_SUCCESS => Len(b) = Len(ConfigWrites(d))
       /\ c.rc \in {WII_LIB_RC_SUCCESS, WII_LIB_RC_I2C_ERROR}

\* the calls of WiiLib_DoMaintenance and of WiiLib_PollStatus on the device d,
\* which are made once WiiLib_Init has been called
Maintained(w, d) ==
    IF Called THEN {WiiLib_DoMaintenance(NewCall(d), e) : e \in MaintenanceEnvs(w, d)}
    ELSE {}

Polled(w, d) ==
    IF Called THEN {WiiLib_PollStatus(NewCall(d), e) : e \in StatusEnvs(w, d)}
    ELSE {}

\* C3 as stated: WiiLib_DoMaintenance called with 3 < failedParamQueryCount <= 20
\* re-issues the configuration writes, and when they succeed the status is Active
\* on return and still Active after a following successful poll.
C3_ActiveAfterReconfigure ==
    (device.failedParamQueryCount > 3 /\ device.failedParamQueryCount <= 20) =>
        \A c \in Maintained(World, device) :
            /\ Reconfigured(device, c)
            /\ c.rc = WII_LIB_RC_SUCCESS =>
                   /\ c.d.status = WII_LIB_DEVICE_STATUS_ACTIVE
                   /\ \A c2 \in Polled(World, c.d) :
                          c2.rc = WII_LIB_RC_SUCCESS =>
                              /\ c2.d.failedParamQueryCount = 0
                              /\ c2.d.status = WII_LIB_DEVICE_STATUS_ACTIVE

\* C3 as the code has it: WiiLib_DoMaintenance called with
\* 3 < failedParamQueryCount <= 20 re-issues the configuration writes and returns
\* with the status Configuring, whether or not the writes succeed, and the counter
\* as it was; a following successful poll resets the counter and leaves the status
\* Configuring; the WiiLib_DoMaintenance after that sets the status Active without
\* a bus operation.
C3_ConfiguringAfterReconfigure ==
    (device.failedParamQueryCount > 3 /\ device.failedParamQueryCount <= 20) =>
        \A c \in Maintained(World, device) :
            /\ Reconfigured(device, c)
            /\ c.d = [device EXCEPT !.status = WII_LIB_DEVICE_STATUS_CONFIGURING]
            /\ \A c2 \in Polled(World, c.d) :
                   c2.rc = WII_LIB_RC_SUCCESS =>
                       /\ c2.d.failedParamQueryCount = 0
                       /\ c2.d.status = WII_LIB_DEVICE_STATUS_CONFIGURING
                       /\ \A c3 \in Maintained(World, c2.d) :
                              /\ c3.rc = WII_LIB_RC_SUCCESS
                              /\ c3.log = <<>>
                              /\ c3.d = [c2.d EXCEPT
                                             !.status = WII_LIB_DEVICE_STATUS_ACTIVE]

C3_Witness ==
    /\ op = "maintenance"
    /\ rc = WII_LIB_RC_SUCCESS
    /\ Len(BusEvents(log)) = 2
    /\ device.status = WII_LIB_DEVICE_STATUS_CONFIGURING
    /\ device.failedParamQueryCount = 4
    /\ \E c2 \in Polled(World, device) : c2.rc = WII_LIB_RC_SUCCESS

\* C4: WiiLib_DoMaintenance called with failedParamQueryCount > 20, whatever the
\* status, sets the status Disabled, returns DEVICE_DISABLED and issues no bus
\* operation; called with failedParamQueryCount = 20 it does not disable.
C4_DisableAboveThreshold ==
    \A c \in Maintained(World, device) :
        /\ device.failedParamQueryCount > 20 =>
               /\ c.rc = WII_LIB_RC_DEVICE_DISABLED
               /\ c.log = <<>>
               /\ c.n = 0
               /\ c.d = [device EXCEPT !.status = WII_LIB_DEVICE_STATUS_DISABLED]
        /\ device.failedParamQueryCount = 20 =>
               /\ c.rc # WII_LIB_RC_DEVICE_DISABLED
               /\ c.d.status # WII_LIB_DEVICE_STATUS_DISABLED

C4_Witness ==
    /\ op = "maintenance"
    /\ rc = WII_LIB_RC_DEVICE_DISABLED
    /\ device.status = WII_LIB_DEVICE_STATUS_DISABLED
    /\ device.failedParamQueryCount = 21
    /\ device.interfaceHome # ZeroInterface

\* the calls that are not WiiLib_Init, on the device d
OtherCalls(d) ==
    Polled(World, d) \cup Maintained(World, d)
        \cup {WiiLib_SetNewHomePosition(NewCall(d), e) : e \in SetHomeEnvs(World, d)}
        \cup {WiiLib_EnableRelativePosition(NewCall(d)),
              WiiLib_DisableRelativePosition(NewCall(d))}

\* the calls of WiiLib_Init on the device d
Initialized(d) ==
    {WiiLib_Init(NewCall(d), e, a[1], a[2]) :
         a \in World.initArgs, e \in ConnectEnvs(World, InitMocks)}

IsConnect(x) == x.ev = "connect"

\* C6: Disabled is terminal.  With the status Disabled, no query, poll, set-home,
\* maintenance, enable-relative or disable-relative call changes the status or
\* failedParamQueryCount.  WiiLib_Init does reset them: its maintenance runs the
\* connect attempts of a device that is Uninitialized with a counter of 0, and
\* leaves the status Uninitialized or Active and the counter at most at the number
\* of attempts.
C6_DisabledIsTerminal ==
    device.status = WII_LIB_DEVICE_STATUS_DISABLED =>
        /\ \A p \in Params : \A e \in QueryEnvs(World, device, p) :
               LET c == WiiLib_QueryParameter(NewCall(device), e, p)
               IN /\ c.d.status = WII_LIB_DEVICE_STATUS_DISABLED
                  /\ c.d.failedParamQueryCount = device.failedParamQueryCount
        /\ \A c \in OtherCalls(device) :
               /\ c.d.status = WII_LIB_DEVICE_STATUS_DISABLED
               /\ c.d.failedParamQueryCount = device.failedParamQueryCount
        /\ \A c \in Initialized(device) :
               /\ SelectSeq(c.log, IsConnect) # <<>>
               /\ c.d.status \in {WII_LIB_DEVICE_STATUS_NOT_INITIALIZED,
                                   WII_LIB_DEVICE_STATUS_ACTIVE}
               /\ c.d.failedParamQueryCount <= WII_LIB_MAX_CONNECTION_ATTEMPTS
        /\ op # "init"

C6_Witness ==
    /\ device.status = WII_LIB_DEVICE_STATUS_DISABLED
    /\ device.calculateRelativePosition = 0
    /\ op = "disable"
    /\ device.failedParamQueryCount = 22

(***************************************************************************)
(* Properties of the runs of failed polls (SpecPolls).                     *)
(***************************************************************************)
\* C5 as stated: from Active with failedParamQueryCount 0, after 21 consecutive
\* polls that each returned I2C_ERROR the status is Disabled and the next poll
\* returns DEVICE_DISABLED without a bus operation.
C5_DisabledByPolls ==
    (hist.n = 21 /\ hist.pure) =>
        /\ device.status = WII_LIB_DEVICE_STATUS_DISABLED
        /\ \A c \in Polled(PollWorld, device) : Rejected(device, c)

\* C5 as the code has it: from Active with failedParamQueryCount 0, after 21
\* consecutive polls that each returned I2C_ERROR the status is still Active, the
\* counter is 21 and the next poll goes to the bus; it is the WiiLib_DoMaintenance
\* called then that sets the status Disabled and returns DEVICE_DISABLED, after
\* which the next poll returns DEVICE_DISABLED without a bus operation.
C5_DisabledByMaintenance ==
    (hist.n = 21 /\ hist.pure) =>
        /\ device.status = WII_LIB_DEVICE_STATUS_ACTIVE
        /\ device.failedParamQueryCount = 21
        /\ \A c \in Polled(PollWorld, device) : BusEvents(c.log) # <<>>
        /\ \A m \in Maintained(PollWorld, device) :
               /\ m.rc = WII_LIB_RC_DEVICE_DISABLED
               /\ m.d.status = WII_LIB_DEVICE_STATUS_DISABLED
               /\ BusEvents(m.log) = <<>>
               /\ \A c \in Polled(PollWorld, m.d) : Rejected(m.d, c)

C5_Witness ==
    /\ hist.n = 21
    /\ hist.pure
    /\ op = "poll"
    /\ rc = WII_LIB_RC_I2C_ERROR
    /\ device.interfaceCurrent # ZeroInterface

\* C7: from Active with failedParamQueryCount 0, after N <= 3 consecutive polls
\* that each returned I2C_ERROR or DATA_RECEIVED_IS_INVALID, with
\* WiiLib_DoMaintenance called after any of them, the status is Active, the
\* counter is N, no WiiLib_DoMaintenance of the run issued a bus operation (nor
\* does the next one), and interfaceCurrent is as it was before the failures.
C7_FewFailuresKeepActive ==
    (hist.n >= 0 /\ hist.n <= 3) =>
        /\ device.status = WII_LIB_DEVICE_STATUS_ACTIVE
        /\ device.failedParamQueryCount = hist.n
        /\ ~hist.writes
        /\ hist.same
        /\ \A m \in Maintained(PollWorld, device) :
               /\ BusEvents(m.log) = <<>>
               /\ m.d = device

C7_Witness ==
    /\ hist.n = 3
    /\ ~hist.pure
    /\ op = "maintenance"
    /\ rc = WII_LIB_RC_SUCCESS
    /\ device.dataCurrent = Zeros(WII_LIB_MAX_PAYLOAD_SIZE)
    /\ device.interfaceCurrent # ZeroInterface

(***************************************************************************)
(* Properties of the connect attempts (SpecConnect).                       *)
(***************************************************************************)
IsConnected(x) == x.ev = "connected"

IsRetryDelay(x) == x.ev = "delay" /\ x.ms = WII_LIB_DELAY_AFTER_CONNECTION_ATTEMPT_MS

IsAttemptOrRetryDelay(x) == IsConnect(x) \/ IsRetryDelay(x)

\* the entries to WiiLib_ConnectToTarget and the retry delays of the log l, in order
Attempts(l) == SelectSeq(l, IsAttemptOrRetryDelay)

\* at most 5 attempts, with exactly one retry delay between two consecutive
\* attempts and none before the first or after the last
AttemptsSpaced(l) ==
    LET s == Attempts(l)
    IN /\ Len(s) <= 2 * 5 - 1
       /\ s # <<>> => Len(s) % 2 = 1
       /\ \A i \in 1..Len(s) : IF i % 2 = 1 THEN IsConnect(s[i]) ELSE IsRetryDelay(s[i])

\* C8: one WiiLib_DoMaintenance on an Uninitialized device with
\* failedParamQueryCount <= 3 (and so the one WiiLib_Init ends with) makes at
\* least one and at most 5 connect attempts; the 500 ms delay occurs exactly once
\* between two consecutive attempts, never before the first or after the last.
C8_AttemptsBoundedAndSpaced ==
    /\ (device.status = WII_LIB_DEVICE_STATUS_NOT_INITIALIZED
        /\ device.failedParamQueryCount <= 3) =>
           \A c \in Maintained(ConnectWorld, device) :
               AttemptsSpaced(c.log) /\ Attempts(c.log) # <<>>
    /\ op = "init" => AttemptsSpaced(log) /\ Attempts(log) # <<>>
    /\ op = "maintenance" => AttemptsSpaced(log)

C8_Witness ==
    /\ op = "maintenance"
    /\ Len(Attempts(log)) = 9
    /\ rc = WII_LIB_RC_SUCCESS
    /\ device.status = WII_LIB_DEVICE_STATUS_ACTIVE
    /\ device.target = WII_LIB_TARGET_DEVICE_CLASSIC_CONTROLLER

\* the call with the log l, the return code r and the device d after it made five
\* connect attempts that all failed: then it returned TARGET_NOT_INITIALIZED and
\* the status is Uninitialized
ExhaustedMeansNotInitialized(l, r, d) ==
    LET att == SelectSeq(l, IsConnected)
    IN (/\ Len(att) = 5
        /\ \A i \in 1..5 : att[i].rc \notin {WII_LIB_RC_SUCCESS,
                                               WII_LIB_RC_TARGET_ID_MISMATCH}) =>
           /\ r = WII_LIB_RC_TARGET_NOT_INITIALIZED
           /\ d.status = WII_LIB_DEVICE_STATUS_NOT_INITIALIZED

\* C9: when all five connect attempts of a WiiLib_DoMaintenance or WiiLib_Init
\* fail (by a configuration write or by the STATUS poll that establishes home),
\* the call returns TARGET_NOT_INITIALIZED and the status remains Uninitialized.
C9_ExhaustedAttempts ==
    /\ \A c \in Maintained(ConnectWorld, device) :
           ExhaustedMeansNotInitialized(c.log, c.rc, c.d)
    /\ op \in {"init", "maintenance"} => ExhaustedMeansNotInitialized(log, rc, device)

C9_Witness ==
    LET att == SelectSeq(log, IsConnected)
    IN /\ op = "maintenance"
       /\ Len(att) = 5
       /\ att[1].rc = WII_LIB_RC_I2C_ERROR
       /\ att[5].rc = WII_LIB_RC_TARGET_NOT_INITIALIZED
       /\ rc = WII_LIB_RC_TARGET_NOT_INITIALIZED
       /\ device.status = WII_LIB_DEVICE_STATUS_NOT_INITIALIZED

\* an attempt whose identity read gave a kind other than the one expected
Mismatched(x) ==
    /\ IsConnected(x)
    /\ x.id
    /\ x.want # WII_LIB_TARGET_DEVICE_UNKNOWN
    /\ x.read # x.want

\* in the call with the log l and the device d after it, a mismatched attempt
\* returned TARGET_ID_MISMATCH, is the last event of the call, and its kind is
\* the device's
MismatchRecorded(l, d) ==
    \A i \in 1..Len(l) :
        Mismatched(l[i]) =>
            /\ l[i].rc = WII_LIB_RC_TARGET_ID_MISMATCH
            /\ i = Len(l)
            /\ d.target = l[i].read

HasMismatch(l) == \E i \in 1..Len(l) : Mismatched(l[i])

Supported == {WII_LIB_TARGET_DEVICE_NUNCHUCK,
              WII_LIB_TARGET_DEVICE_CLASSIC_CONTROLLER,
              WII_LIB_TARGET_DEVICE_MOTION_PLUS,
              WII_LIB_TARGET_DEVICE_MOTION_PLUS_PASS_NUNCHUCK,
              WII_LIB_TARGET_DEVICE_MOTION_PLUS_PASS_CLASSIC}

\* C11: in every reachable state, status Active implies that the kind of the
\* device is neither Unknown nor Unsupported.
C11_ActiveMeansSupported ==
    device.status = WII_LIB_DEVICE_STATUS_ACTIVE => device.target \in Supported

\* every bus operation of the log l was acknowledged and every identity read of
\* its connect attempts gave a supported kind
Responsive(l) ==
    \A i \in 1..Len(l) :
        /\ IsBusEvent(l[i]) => l[i].ok
        /\ IsConnected(l[i]) => l[i].id /\ l[i].read \in Supported

\* the connect attempts of the log l were made with the expected kind Unknown
ExpectedUnknown(l) ==
    /\ \E i \in 1..Len(l) : IsConnected(l[i])
    /\ \A i \in 1..Len(l) :
           IsConnected(l[i]) => l[i].want = WII_LIB_TARGET_DEVICE_UNKNOWN

\* C12: WiiLib_Init with the expected kind Unknown against a responsive supported
\* peripheral returns SUCCESS with the status Active and the kind of the device
\* equal to the kind read from DEVICE_TYPE.
C12_UnknownIdentifies ==
    (op = "init" /\ ExpectedUnknown(log) /\ Responsive(log)) =>
        /\ rc = WII_LIB_RC_SUCCESS
        /\ device.status = WII_LIB_DEVICE_STATUS_ACTIVE
        /\ \A i \in 1..Len(log) : IsConnected(log[i]) => device.target = log[i].read

(***************************************************************************)
(* Properties of the snapshots (SpecTrack).                                *)
(***************************************************************************)
\* in the device d every analog field of interfaceRelative is the difference of
\* interfaceCurrent and interfaceHome
AnalogDifference(d) ==
    \A f \in AnalogFields :
        d.interfaceRelative[f] = d.interfaceCurrent[f] - d.interfaceHome[f]

\* in the device d every button of interfaceRelative is as in interfaceHome
ButtonsOfHome(d) ==
    \A f \in ButtonFields : d.interfaceRelative[f] = d.interfaceHome[f]

C14_HomeIsCurrent ==
    /\ (Called /\ device.calculateRelativePosition # 0) =>
           \A e \in SetHomeEnvs(TrackWorld, device) :
               LET p == WiiLib_PollStatus(NewCall(device), e)
                   c == WiiLib_SetNewHomePosition(NewCall(device), e)
               IN /\ c.rc = p.rc
                  /\ c.d.interfaceCurrent = p.d.interfaceCurrent
                  /\ IF p.rc = WII_LIB_RC_SUCCESS
                     THEN c.d.interfaceHome = p.d.interfaceCurrent
                     ELSE c.d.interfaceHome = device.interfaceHome
    /\ (op = "sethome" /\ rc = WII_LIB_RC_SUCCESS) =>
           device.interfaceHome = device.interfaceCurrent

C14_Witness ==
    /\ op = "sethome"
    /\ rc = WII_LIB_RC_SUCCESS
    /\ device.interfaceHome = device.interfaceCurrent
    /\ device.interfaceHome # device.interfaceRelative
    /\ device.interfaceRelative # ZeroInterface
    /\ device.target = WII_LIB_TARGET_DEVICE_CLASSIC_CONTROLLER

\* the peripherals that answer every operation with the status report r
Steady(r) == {Env(AllOk, WII_LIB_ID_NUNCHUCK, r, k) : k \in Copies}

\* C15: for every kind with a decoder and every status report: if the peripheral
\* keeps returning the report, then WiiLib_PollStatus, WiiLib_SetNewHomePosition,
\* WiiLib_PollStatus, all returning SUCCESS with the relative positions enabled,
\* leave every analog field of interfaceRelative equal to 0.
C15_HomeThenPollIsZero ==
    (Called /\ device.calculateRelativePosition # 0) =>
        \A r \in TrackWorld.reports : \A e \in Steady(r) :
            LET c1 == WiiLib_PollStatus(NewCall(device), e)
                c2 == WiiLib_SetNewHomePosition(NewCall(c1.d), e)
                c3 == WiiLib_PollStatus(NewCall(c2.d), e)
            IN (/\ c1.rc = WII_LIB_RC_SUCCESS
                /\ c2.rc = WII_LIB_RC_SUCCESS
                /\ c3.rc = WII_LIB_RC_SUCCESS) =>
                   \A f \in AnalogFields : c3.d.interfaceRelative[f] = 0

C15_Witness ==
    /\ op = "sethome"
    /\ rc = WII_LIB_RC_SUCCESS
    /\ device.target = WII_LIB_TARGET_DEVICE_MOTION_PLUS_PASS_NUNCHUCK
    /\ device.interfaceRelative.accelZ # 0
    /\ \E r \in TrackWorld.reports : \E e \in Steady(r) :
           LET c3 == WiiLib_PollStatus(NewCall(device), e)
           IN /\ c3.rc = WII_LIB_RC_SUCCESS
              /\ c3.d.interfaceCurrent = device.interfaceCurrent
              /\ c3.d.interfaceCurrent.accelZ # 0
              /\ \A f \in AnalogFields : c3.d.interfaceRelative[f] = 0

\* C16: WiiLib_SetNewHomePosition called while the relative positions are
\* disabled returns RELATIVE_POSITION_FEATURE_DISABLED without a bus operation
\* and leaves the whole device (home, current, relative, payload, counter,
\* status) as it was.
C16_SetHomeNeedsRelative ==
    /\ (Called /\ device.calculateRelativePosition = 0) =>
           \A e \in SetHomeEnvs(TrackWorld, device) :
               LET c == WiiLib_SetNewHomePosition(NewCall(device), e)
               IN /\ c.rc = WII_LIB_RC_RELATIVE_POSITION_FEATURE_DISABLED
                  /\ c.log = <<>>
                  /\ c.n = 0
                  /\ c.d = device
    /\ (op = "sethome" /\ device.calculateRelativePosition = 0) =>
           rc = WII_LIB_RC_RELATIVE_POSITION_FEATURE_DISABLED /\ log = <<>>

C16_Witness ==
    /\ op = "sethome"
    /\ rc = WII_LIB_RC_RELATIVE_POSITION_FEATURE_DISABLED
    /\ device.calculateRelativePosition = 0
    /\ device.status = WII_LIB_DEVICE_STATUS_ACTIVE
    /\ device.interfaceHome # device.interfaceCurrent
    /\ log = <<>>

\* C17: while the relative positions are disabled, a WiiLib_PollStatus,
\* successful or failed, changes no field of interfaceRelative and leaves them
\* disabled; WiiLib_EnableRelativePosition and WiiLib_DisableRelativePosition
\* return SUCCESS, issue nothing on the bus and change only the flag.
C17_DisabledRelativeIsFrozen ==
    /\ (Called /\ device.calculateRelativePosition = 0) =>
           \A c \in Polled(TrackWorld, device) :
               /\ c.d.interfaceRelative = device.interfaceRelative
               /\ c.d.calculateRelativePosition = 0
    /\ Called =>
           /\ WiiLib_EnableRelativePosition(NewCall(device)) =
                  [NewCall([device EXCEPT !.calculateRelativePosition = 1])
                       EXCEPT !.rc = WII_LIB_RC_SUCCESS]
           /\ WiiLib_DisableRelativePosition(NewCall(device)) =
                  [NewCall([device EXCEPT !.calculateRelativePosition = 0])
                       EXCEPT !.rc = WII_LIB_RC_SUCCESS]
    /\ op \in {"enable", "disable"} => rc = WII_LIB_RC_SUCCESS /\ log = <<>>

C17_Witness ==
    /\ op = "poll"
    /\ rc = WII_LIB_RC_SUCCESS
    /\ device.calculateRelativePosition = 0
    /\ device.interfaceCurrent # device.interfaceHome
    /\ device.interfaceRelative.analogLeftX = 0
    /\ device.interfaceCurrent.analogLeftX # device.interfaceHome.analogLeftX

(***************************************************************************)
(* Properties of the queries and of the configuration.                     *)
(***************************************************************************)
\* the number of bytes WiiLib_QueryParameter asks for
LenOut(p) == IF p = WII_LIB_PARAM_RAW_DATA THEN WII_LIB_PARAM_RESPONSE_LEN_EXTENDED
             ELSE WII_LIB_PARAM_RESPONSE_LEN_DEFAULT

\* a peripheral whose six report bytes are 0xFF although it is ready
AllFFReport == Env(AllOk, WII_LIB_ID_NUNCHUCK, AllFF(WII_LIB_ID_LENGTH), "move")

\* the query of p on the device d that ended as the call c: if its bus
\* transaction succeeded, then it returned DATA_RECEIVED_IS_INVALID exactly when
\* all the bytes asked for are 0xFF, and then the payload is zeroed, the counter
\* is one more and everything else is as it was
InvalidIffAllFF(d, c, p) ==
    LET b == BusEvents(c.log)
    IN (b # <<>> /\ b[Len(b)].ev = "query" /\ b[Len(b)].ok) =>
           /\ (c.rc = WII_LIB_RC_DATA_RECEIVED_IS_INVALID)
                  <=> (\A i \in 1..LenOut(p) : c.rx[i] = 255)
           /\ c.rc = WII_LIB_RC_DATA_RECEIVED_IS_INVALID =>
                  c.d = [d EXCEPT !.dataCurrent = Zeros(WII_LIB_MAX_PAYLOAD_SIZE),
                                  !.failedParamQueryCount = d.failedParamQueryCount + 1]

ClassicKinds == {WII_LIB_TARGET_DEVICE_CLASSIC_CONTROLLER,
                 WII_LIB_TARGET_DEVICE_MOTION_PLUS_PASS_CLASSIC}

\* the bus events b are configuration writes for the device d, at least one, in
\* order and up to the first that is not acknowledged, and then the one
\* write-then-read of the parameter p
ConfiguredThenQueried(d, b, p) ==
    /\ Len(b) \in 2..(Len(ConfigWrites(d)) + 1)
    /\ \A i \in 1..(Len(b) - 1) :
           /\ b[i].ev = "write"
           /\ b[i].data = ConfigWrites(d)[i]
           /\ i < Len(b) - 1 => b[i].ok
    /\ (Len(b) - 1 < Len(ConfigWrites(d))) => ~b[Len(b) - 1].ok
    /\ b[Len(b)].ev = "query"
    /\ b[Len(b)].param = p

\* the bus events b are the one write-then-read of the parameter p
OnlyQueried(b, p) == Len(b) = 1 /\ b[1].ev = "query" /\ b[1].param = p

\* C19: on a device that is not Disabled, a STATUS query for the kind
\* ClassicController or MotionPlusPassClassic issues the configuration writes
\* before the write-then-read of the parameter; a STATUS query for any other
\* kind, and a DEVICE_TYPE or RAW_DATA query for any kind, issues no
\* configuration write.
C19_ClassicConfiguresFirst ==
    /\ (Called /\ device.status # WII_LIB_DEVICE_STATUS_DISABLED) =>
           \A p \in Queried : \A e \in QueryEnvs(TrackWorld, device, p) :
               LET c == WiiLib_QueryParameter(NewCall(device), e, p)
               IN IF p = WII_LIB_PARAM_STATUS /\ device.target \in ClassicKinds
                  THEN ConfiguredThenQueried(device, BusEvents(c.log), p)
                  ELSE OnlyQueried(BusEvents(c.log), p)
    /\ op = "poll" =>
           IF device.target \in ClassicKinds
           THEN ConfiguredThenQueried(device, BusEvents(log), WII_LIB_PARAM_STATUS)
           ELSE OnlyQueried(BusEvents(log), WII_LIB_PARAM_STATUS)

C19_Witness ==
    /\ op = "poll"
    /\ rc = WII_LIB_RC_SUCCESS
    /\ device.target = WII_LIB_TARGET_DEVICE_MOTION_PLUS_PASS_CLASSIC
    /\ Len(BusEvents(log)) = 3
    /\ BusEvents(log)[1].data = <<240, 85>>
    /\ BusEvents(log)[2].data = <<251, 0>>
    /\ ~BusEvents(log)[2].ok
    /\ BusEvents(log)[3].ev = "query"

ConfigDelay == [ev |-> "delay", ms |-> WII_LIB_DELAY_AFTER_CONFIG_MESSAGE_MS]

ConfigWrite(data, ok) == [ev |-> "write", data |-> data, ok |-> ok]

\* the events and the return of WiiLib_ConfigureDevice that ended as the call c
ConfiguredInOrder(d, c) ==
    IF d.dataEncrypted # 0
    THEN \/ c.log = <<ConfigWrite(<<64, 0>>, TRUE), ConfigDelay>>
            /\ c.rc = WII_LIB_RC_SUCCESS
         \/ c.log = <<ConfigWrite(<<64, 0>>, FALSE)>>
            /\ c.rc = WII_LIB_RC_I2C_ERROR
    ELSE \/ c.log = <<ConfigWrite(<<240, 85>>, TRUE), ConfigDelay,
                      ConfigWrite(<<251, 0>>, TRUE), ConfigDelay>>
            /\ c.rc = WII_LIB_RC_SUCCESS
         \/ c.log = <<ConfigWrite(<<240, 85>>, TRUE), ConfigDelay,
                      ConfigWrite(<<251, 0>>, FALSE)>>
            /\ c.rc = WII_LIB_RC_I2C_ERROR
         \/ c.log = <<ConfigWrite(<<240, 85>>, FALSE)>>
            /\ c.rc = WII_LIB_RC_I2C_ERROR

\* C20: WiiLib_ConfigureDevice in clear-text mode issues, in order, the write
\* F0 55, a 20 ms delay, the write FB 00, a 20 ms delay; when the first write
\* fails the second is not issued and I2C_ERROR is returned; in scrambled mode it
\* issues the one write 40 00 followed by a 20 ms delay.
C20_ConfigureSequence ==
    Called =>
        /\ \A m \in Mocks(2) :
               LET e == Env(m, WII_LIB_ID_NUNCHUCK, REPORT_A, "move")
                   c == WiiLib_ConfigureDevice(NewCall(device), e)
               IN /\ ConfiguredInOrder(device, c)
                  /\ c.d = device
                  /\ (c.rc = WII_LIB_RC_SUCCESS) <=> (BusOutcome(e, 0) # "nack"
                                                    /\ (device.dataEncrypted = 0 =>
                                                            BusOutcome(e, 1) # "nack"))
        /\ (op = "maintenance" /\ Len(log) > 1 /\ IsConnect(log[1])) =>
               \E n \in 1..4 :
                   /\ Len(log) >= n + 1
                   /\ ConfiguredInOrder(device,
                          [log |-> SubSeq(log, 2, n + 1),
                           rc |-> IF log[n + 1] = ConfigDelay THEN WII_LIB_RC_SUCCESS
                                  ELSE WII_LIB_RC_I2C_ERROR])

C20_Witness ==
    /\ op = "maintenance"
    /\ device.dataEncrypted = 0
    /\ Len(log) >= 4
    /\ SubSeq(log, 2, 4) = <<ConfigWrite(<<240, 85>>, TRUE), ConfigDelay,
                             ConfigWrite(<<251, 0>>, FALSE)>>
    /\ \E m \in Mocks(2) :
           WiiLib_ConfigureDevice(NewCall([device EXCEPT !.dataEncrypted = 1]),
                                  Env(m, WII_LIB_ID_NUNCHUCK, REPORT_A, "move")).log
               = <<ConfigWrite(<<64, 0>>, TRUE), ConfigDelay>>

(***************************************************************************)
(* Properties of the errors returned (SpecConnect).                        *)
(***************************************************************************)
\* the returns of WiiLib_ConnectToTarget entered in the log l, in order
Connections(l) == SelectSeq(l, IsConnected)

\* the events of the last connection attempt of the log l, from its entry on
LastAttempt(l) ==
    LET k == CHOOSE i \in 1..Len(l) :
                 IsConnect(l[i]) /\ \A j \in (i + 1)..Len(l) : ~IsConnect(l[j])
    IN SubSeq(l, k, Len(l))

\* the configuration step of the last connection attempt of the log l (the
\* writes before its first query) had a write that was not acknowledged:
\* WiiLib_ConfigureDevice returned I2C_ERROR (wii_lib.c:241-259)
ConfigurationFailed(l) ==
    \E i \in 1..Len(LastAttempt(l)) :
        /\ LastAttempt(l)[i].ev = "write"
        /\ ~LastAttempt(l)[i].ok
        /\ \A j \in 1..(i - 1) : LastAttempt(l)[j].ev # "query"

\* a poll and a set-home call return the error of their query unchanged
QueryErrorsUnchanged(w, d) ==
    /\ \A e \in StatusEnvs(w, d) :
           LET q == WiiLib_QueryParameter(NewCall(d), e, WII_LIB_PARAM_STATUS)
               b == BusEvents(q.log)
           IN /\ WiiLib_PollStatus(NewCall(d), e).rc = q.rc
              /\ (b # <<>> /\ ~b[Len(b)].ok) => q.rc = WII_LIB_RC_I2C_ERROR
              /\ (b # <<>> /\ b[Len(b)].ok /\ q.rx = AllFF(WII_LIB_PARAM_RESPONSE_LEN_DEFAULT))
                     => q.rc = WII_LIB_RC_DATA_RECEIVED_IS_INVALID
              /\ (b # <<>> /\ b[Len(b)].ok /\ q.rx # AllFF(WII_LIB_PARAM_RESPONSE_LEN_DEFAULT)
                  /\ d.target \notin Supported)
                     => q.rc = WII_LIB_RC_UNSUPPORTED_DEVICE
    /\ \A e \in SetHomeEnvs(w, d) :
           LET q == WiiLib_PollStatus(NewCall(d), e)
           IN (d.calculateRelativePosition # 0 /\ q.rc # WII_LIB_RC_SUCCESS) =>
                  WiiLib_SetNewHomePosition(NewCall(d), e).rc = q.rc

Scramble(x) == BitXor((x + 256 - 23) % 256, 23)

\* the signature table of WiiLib_DetermineDeviceType
Signatures ==
    {<<WII_LIB_ID_NUNCHUCK, WII_LIB_TARGET_DEVICE_NUNCHUCK>>,
     <<WII_LIB_ID_CLASSIC_CONTROLLER, WII_LIB_TARGET_DEVICE_CLASSIC_CONTROLLER>>,
     <<WII_LIB_ID_WII_MOTION_PLUS, WII_LIB_TARGET_DEVICE_MOTION_PLUS>>,
     <<WII_LIB_ID_WII_MOTION_PLUS_PASS_NUNCHUCK,
       WII_LIB_TARGET_DEVICE_MOTION_PLUS_PASS_NUNCHUCK>>,
     <<WII_LIB_ID_WII_MOTION_PLUS_PASS_CLASSIC,
       WII_LIB_TARGET_DEVICE_MOTION_PLUS_PASS_CLASSIC>>}

\* the peripherals that answer a DEVICE_TYPE query or fail it: every signature
\* and an unlisted blob, in clear and scrambled
IdentityEnvs ==
    {Env(m, i, REPORT_A, "move") :
         m \in Mocks(1),
         i \in {g[1] : g \in Signatures} \cup {ID_OTHER}
               \cup {[k \in 1..WII_LIB_ID_LENGTH |-> Scramble(g[1][k])] : g \in Signatures}}

\* kind is what identification makes of the DEVICE_TYPE query that ended as q
Identified(q, kind) ==
    LET blob == IdOf(q.d.dataCurrent)
    IN /\ (kind = WII_LIB_TARGET_DEVICE_UNKNOWN) <=> (q.rc # WII_LIB_RC_SUCCESS)
       /\ q.rc = WII_LIB_RC_SUCCESS =>
              /\ \A g \in Signatures : (kind = g[2]) <=> (blob = g[1])
              /\ (kind = WII_LIB_TARGET_DEVICE_UNSUPPORTED)
                     <=> (\A g \in Signatures : blob # g[1])

\* C22: identification maps a 6-byte identity blob that was read successfully to
\* Nunchuck, ClassicController, MotionPlus, MotionPlusPassNunchuck or
\* MotionPlusPassClassic exactly when the blob is that kind's signature and to
\* Unsupported for every other blob; it yields Unknown exactly when the
\* DEVICE_TYPE query did not succeed.
C22_IdentificationTable ==
    /\ Called =>
           \A e \in IdentityEnvs :
               Identified(WiiLib_QueryParameter(NewCall(device), e, WII_LIB_PARAM_DEVICE_TYPE),
                          WiiLib_DetermineDeviceType(NewCall(device), e).rc)
    /\ (op \in {"init", "maintenance"} /\ Connections(log) # <<>>) =>
           LET last == Connections(log)[Len(Connections(log))]
           IN (last.rc = WII_LIB_RC_TARGET_ID_MISMATCH) =>
                  /\ device.target = last.read
                  /\ \/ last.read = WII_LIB_TARGET_DEVICE_UNKNOWN
                     \/ Identified([d |-> device, rc |-> WII_LIB_RC_SUCCESS], last.read)

C22_Witness ==
    /\ op = "init"
    /\ Connections(log) # <<>>
    /\ Connections(log)[Len(Connections(log))].rc = WII_LIB_RC_TARGET_ID_MISMATCH
    /\ device.target = WII_LIB_TARGET_DEVICE_CLASSIC_CONTROLLER
    /\ IdOf(device.dataCurrent) = WII_LIB_ID_CLASSIC_CONTROLLER
    /\ \E e \in IdentityEnvs :
           /\ e.id # WII_LIB_ID_WII_MOTION_PLUS
           /\ WiiLib_DetermineDeviceType(NewCall([device EXCEPT !.dataEncrypted = 1]), e).rc
                  = WII_LIB_TARGET_DEVICE_MOTION_PLUS

\* C23: for every byte x, descrambling the scrambled x gives x again, where
\* descrambling is what WiiLib_Decrypt does to a byte, ((b XOR 0x17) + 0x17) mod
\* 256, and scrambling is ((x - 0x17) XOR 0x17) mod 256.
C23_DescrambleInvertsScramble ==
    /\ \A x \in 0..255 : DecryptByte(Scramble(x)) = x
    /\ (Called /\ device.dataEncrypted # 0
               /\ device.status # WII_LIB_DEVICE_STATUS_DISABLED) =>
           \A x \in 0..255 :
               WiiLib_QueryParameter(
                   NewCall(device),
                   Env(AllOk, WII_LIB_ID_NUNCHUCK,
                       [k \in 1..WII_LIB_ID_LENGTH |-> Scramble((x + k - 1) % 256)], "move"),
                   WII_LIB_PARAM_RAW_DATA).d.dataCurrent
               = [k \in 1..WII_LIB_MAX_PAYLOAD_SIZE |->
                      IF k <= WII_LIB_ID_LENGTH THEN (x + k - 1) % 256 ELSE 0]

C23_Witness ==
    /\ op = "poll"
    /\ BusEvents(log) # <<>>
    /\ BusEvents(log)[1].ok
    /\ device.dataEncrypted # 0
    /\ device.dataCurrent[2] = DecryptByte(REPORT_A[2])
    /\ device.dataCurrent[2] # REPORT_A[2]
    /\ Scramble(device.dataCurrent[2]) = REPORT_A[2]

(***************************************************************************)
(* Properties of the bus operations (SpecBus).  log[1] is the call with    *)
(* its arguments, the rest of log what the call put on the bus.            *)
(***************************************************************************)
BusOps == {"transmit", "receive", "txrx"}

\* the events of kind k of the log l, in order
EventsOf(l, k) == SelectSeq(l, LAMBDA x : x.ev \in k)

\* C24: within one I2C_TxRx without repeated start whose write phase is
\* acknowledged, the bus sees START, address+write, the payload bytes, STOP, a
\* 1 ms delay, START, address+read, the response bytes, the post-read delay,
\* STOP, in this order; no byte is read before the STOP that ends the write phase.
C24_WriteBeforeRead ==
    (op = "txrx" /\ ~log[1].restart /\ rc # I2C_RC_NO_ACK) =>
        LET t == Tail(log)
            w == log[1].lenTx
            r == Len(EventsOf(log, {"read"}))
        IN /\ Len(t) = w + r + 9
           /\ t[1].ev = "start"
           /\ t[2].ev = "send" /\ t[2].data = 2 * WII_LIB_I2C_ADDR_STANDARD
           /\ \A i \in 1..w : t[2 + i].ev = "send" /\ t[2 + i].data = Payload(w)[i]
           /\ t[w + 3].ev = "stop"
           /\ t[w + 4] = [ev |-> "delay", ms |-> I2C_DELAY_BETWEEN_TX_RX_MS]
           /\ t[w + 5].ev = "start"
           /\ t[w + 6].ev = "send" /\ t[w + 6].data = 2 * WII_LIB_I2C_ADDR_STANDARD + 1
           /\ \A i \in 1..r : t[w + 6 + i].ev = "read"
           /\ t[w + r + 7].ev = "rxoff"
           /\ t[w + r + 8] = [ev |-> "delay", ms |-> I2C_DELAY_POST_READ_MS]
           /\ t[w + r + 9].ev = "stop"
           /\ r = log[1].lenRx \/ (rc = I2C_RC_RECEIVE_OVERFLOW /\ r < log[1].lenRx)

C24_Witness ==
    /\ op = "txrx"
    /\ ~log[1].restart
    /\ log[1].ack
    /\ rc = I2C_RC_SUCCESS
    /\ log[1].lenTx = 1
    /\ log[1].lenRx = MaxLen
    /\ Len(EventsOf(log, {"read"})) = MaxLen

\* C25: I2C_Transmit, I2C_Receive and I2C_TxRx without repeated start leave the
\* bus idle on every return path: the bus conditions they issue are START and
\* STOP in turn, beginning with a START and ending with a STOP, and nothing is
\* sent or read after the last STOP.
C25_BusLeftIdle ==
    (op \in BusOps /\ ~log[1].restart) =>
        LET k == EventsOf(log, {"start", "restart", "stop"})
            t == EventsOf(log, {"start", "restart", "stop", "send", "read"})
        IN /\ Len(k) \in {2, 4}
           /\ \A i \in 1..Len(k) : k[i].ev = IF i % 2 = 1 THEN "start" ELSE "stop"
           /\ t[Len(t)].ev = "stop"
           /\ t[1].ev = "start"

C25_Witness ==
    /\ op = "txrx"
    /\ ~log[1].restart
    /\ rc = I2C_RC_NO_ACK
    /\ Len(EventsOf(log, {"start"})) = 1
    /\ Len(EventsOf(log, {"stop"})) = 1
    /\ Len(EventsOf(log, {"send"})) = 2

\* C26: in a read of len bytes with acknowledgement, each of the first len-1
\* bytes is acknowledged with the configured polarity and the last byte is not.
C26_LastByteNotAcked ==
    (op \in {"receive", "txrx"} /\ log[1].ack) =>
        LET r == EventsOf(log, {"read"})
        IN \A i \in 1..Len(r) :
               (r[i].ack = log[1].ackMode) <=> (i < log[1].lenRx)

\* C27: with acknowledgement required, a byte the peripheral does not
\* acknowledge, the address byte included, makes the operation return NO_ACK;
\* no payload byte is sent after the first such byte, and in I2C_TxRx nothing is
\* read.
C27_NoAckStops ==
    (op \in BusOps /\ log[1].ack) =>
        LET s == EventsOf(log, {"send", "read"})
        IN \A i \in 1..Len(s) :
               (s[i].ev = "send" /\ ~s[i].acked) =>
                   /\ rc = I2C_RC_NO_ACK
                   /\ \A j \in (i + 1)..Len(s) : FALSE

(***************************************************************************)
(* Properties of the Nunchuck decoders (SpecDecode).  After a poll that    *)
(* returned SUCCESS, dataCurrent holds the report and interfaceCurrent     *)
(* what the decoder made of it.                                            *)
(***************************************************************************)
\* the last call was a successful poll of a device of the kind k
Decoded(k) == op = "poll" /\ rc = WII_LIB_RC_SUCCESS /\ device.target = k

\* C28 (as worded): for the kind Nunchuck, the report 7F 82 80 80 80 FC decodes
\* to analogLeftX = 0x7F, analogLeftY = 0x82, accelX = 512, accelY = 512,
\* accelZ = 515, buttonC = 1, buttonZL = 1.
C28_ScenarioS1 ==
    (Decoded(WII_LIB_TARGET_DEVICE_NUNCHUCK) /\ IdOf(device.dataCurrent) = REPORT_A) =>
        /\ device.interfaceCurrent.analogLeftX = 127
        /\ device.interfaceCurrent.analogLeftY = 130
        /\ device.interfaceCurrent.accelX = 512
        /\ device.interfaceCurrent.accelY = 512
        /\ device.interfaceCurrent.accelZ = 515
        /\ device.interfaceCurrent.buttonC = 1
        /\ device.interfaceCurrent.buttonZL = 1

\* C28 (amended): for the kind Nunchuck, the report 7F 82 80 80 80 FC decodes to
\* analogLeftX = 0x7F, analogLeftY = 0x82, accelX = 515, accelY = 515,
\* accelZ = 515, buttonC = 1, buttonZL = 1: the low bit pairs of byte 5 = 0xFC
\* are 3 for all three axes.
C28_ScenarioS1Amended ==
    (Decoded(WII_LIB_TARGET_DEVICE_NUNCHUCK) /\ IdOf(device.dataCurrent) = REPORT_A) =>
        /\ device.interfaceCurrent.analogLeftX = 127
        /\ device.interfaceCurrent.analogLeftY = 130
        /\ device.interfaceCurrent.accelX = 515
        /\ device.interfaceCurrent.accelY = 515
        /\ device.interfaceCurrent.accelZ = 515
        /\ device.interfaceCurrent.buttonC = 1
        /\ device.interfaceCurrent.buttonZL = 1

C28_Witness ==
    /\ Decoded(WII_LIB_TARGET_DEVICE_NUNCHUCK)
    /\ IdOf(device.dataCurrent) = <<127, 130, 128, 128, 128, 252>>
    /\ device.interfaceCurrent.accelX = 515
    /\ device.interfaceHome.accelX # 515

C30_NunchuckPassThroughDecode ==
    Decoded(WII_LIB_TARGET_DEVICE_MOTION_PLUS_PASS_NUNCHUCK) =>
        LET b == device.dataCurrent
            i == device.interfaceCurrent
        IN /\ i.accelX = b[3] * 4 + 2 * ((b[6] \div 16) % 2)
           /\ i.accelY = b[4] * 4 + 2 * ((b[6] \div 32) % 2)
           /\ i.accelZ = BitOr(((b[5] \div 2) % 128) * 4, 2 * ((b[6] \div 64) % 4))
           /\ i.accelX % 2 = 0 /\ i.accelY % 2 = 0 /\ i.accelZ % 2 = 0

(***************************************************************************)
(* Properties of the Classic Controller decoders (SpecClassic).            *)
(***************************************************************************)
\* where each digital button sits in a normal report: <<byte, weight of its bit>>
ClassicButtonWire ==
    [buttonRightTrigger |-> <<5, 2>>, buttonPlus |-> <<5, 4>>, buttonHome |-> <<5, 8>>,
     buttonMinus |-> <<5, 16>>, buttonLeftTrigger |-> <<5, 32>>, dpadDown |-> <<5, 64>>,
     dpadRight |-> <<5, 128>>, dpadUp |-> <<6, 1>>, dpadLeft |-> <<6, 2>>,
     buttonZR |-> <<6, 4>>, buttonX |-> <<6, 8>>, buttonA |-> <<6, 16>>,
     buttonY |-> <<6, 32>>, buttonB |-> <<6, 64>>, buttonZL |-> <<6, 128>>]

\* the button f of the interface i is the inverse of its wire bit in the report b
ButtonInverted(i, b, f) ==
    i[f] = 1 - ((b[ClassicButtonWire[f][1]] \div ClassicButtonWire[f][2]) % 2)

\* the fields the two Classic decoders read alike
ClassicSharedFields(i, b) ==
    /\ i.analogRightX = ((b[1] \div 64) * 8) + ((b[2] \div 64) * 2) + (b[3] \div 128)
    /\ i.analogRightY = b[3] % 32
    /\ i.triggerLeft = (((b[3] \div 32) % 4) * 8) + (b[4] \div 32)
    /\ i.triggerRight = b[4] % 32
    /\ \A f \in DOMAIN ClassicButtonWire \ {"dpadUp", "dpadLeft"} : ButtonInverted(i, b, f)

ClassicNormalFields(i, b) ==
    /\ i.analogLeftX = b[1] % 64
    /\ i.analogLeftY = b[2] % 64
    /\ ButtonInverted(i, b, "dpadUp")
    /\ ButtonInverted(i, b, "dpadLeft")
    /\ ClassicSharedFields(i, b)

\* C31: the normal Classic decode of a report b0..b5: analogLeftX = b0 & 0x3F,
\* analogLeftY = b1 & 0x3F, analogRightX = (((b0>>6)&3)<<3) | (((b1>>6)&3)<<1) |
\* ((b2>>7)&1), analogRightY = b2 & 0x1F, triggerLeft = (((b2>>5)&3)<<3) |
\* ((b3>>5)&7), triggerRight = b3 & 0x1F, and each of the 15 digital buttons is the
\* inverse of its wire bit in bytes 4 and 5; the report 20 20 00 00 FF FF decodes
\* to all buttons 0 and both triggers 0.
C31_ClassicNormalDecode ==
    /\ Decoded(WII_LIB_TARGET_DEVICE_CLASSIC_CONTROLLER) =>
           /\ Cardinality(DOMAIN ClassicButtonWire) = 15
           /\ ClassicNormalFields(device.interfaceCurrent, device.dataCurrent)
           /\ IdOf(device.dataCurrent) = <<32, 32, 0, 0, 255, 255>> =>
                  /\ \A f \in ButtonFields : device.interfaceCurrent[f] = 0
                  /\ device.interfaceCurrent.triggerLeft = 0
                  /\ device.interfaceCurrent.triggerRight = 0
    /\ op = "init" =>
           \A x \in 0..255 :
               /\ ClassicNormalFields(ClassicNormal(ZeroInterface, <<x, x, x, x, x, x>>),
                                      <<x, x, x, x, x, x>>)
               /\ ClassicNormalFields(
                      ClassicNormal(ZeroInterface, <<x, 255 - x, x, 255 - x, x, 255 - x>>),
                      <<x, 255 - x, x, 255 - x, x, 255 - x>>)

C31_Witness ==
    /\ Decoded(WII_LIB_TARGET_DEVICE_CLASSIC_CONTROLLER)
    /\ IdOf(device.dataCurrent) = <<213, 42, 213, 42, 90, 165>>
    /\ device.interfaceCurrent.analogLeftX = 21
    /\ device.interfaceCurrent.analogLeftY = 42
    /\ device.interfaceCurrent.analogRightX = 25
    /\ device.interfaceCurrent.triggerLeft = 17
    /\ device.interfaceCurrent.buttonA = 1
    /\ device.interfaceCurrent.buttonHome = 0

\* C32: the pass-through Classic decode (kind MotionPlusPassClassic) of a report
\* b0..b5: analogLeftX = b0 & 0x3E and analogLeftY = b1 & 0x3E (bits 1..5 kept in
\* place), dpadUp = NOT bit 0 of b0, dpadLeft = NOT bit 0 of b1, and every other
\* field as in the normal decode.
C32_ClassicPassThroughDecode ==
    Decoded(WII_LIB_TARGET_DEVICE_MOTION_PLUS_PASS_CLASSIC) =>
        LET b == device.dataCurrent
            i == device.interfaceCurrent
        IN /\ i.analogLeftX = ((b[1] \div 2) % 32) * 2
           /\ i.analogLeftY = ((b[2] \div 2) % 32) * 2
           /\ i.dpadUp = 1 - (b[1] % 2)
           /\ i.dpadLeft = 1 - (b[2] % 2)
           /\ ClassicSharedFields(i, b)

(***************************************************************************)
(* Properties of failedParamQueryCount.                                    *)
(***************************************************************************)
\* C33 (SpecWrap): after N consecutive failed queries (I2C_ERROR or
\* DATA_RECEIVED_IS_INVALID) on a device that is not Disabled, with no successful
\* query, WiiLib_Init or WiiLib_DoMaintenance in between, failedParamQueryCount is
\* its starting value plus N, for every N: it never wraps, N >= 256 included.  The
\* runs followed start with failedParamQueryCount = 0.
C33_CountNeverWraps ==
    (hist.n >= 0 /\ device.status # WII_LIB_DEVICE_STATUS_DISABLED) =>
        device.failedParamQueryCount = hist.n

\* C34 (SpecLoop): when WiiLib_Init has returned TARGET_NOT_INITIALIZED and every
\* bus operation fails from then on, the loop of WiiLib_PollStatus and
\* WiiLib_DoMaintenance leads to status Disabled, which then stays, and from then
\* on the polls issue no bus operation.
C34_AbsentPeripheralEndsDisabled ==
    /\ (op = "init" /\ rc = WII_LIB_RC_TARGET_NOT_INITIALIZED)
           ~> [](device.status = WII_LIB_DEVICE_STATUS_DISABLED)
    /\ []((device.status = WII_LIB_DEVICE_STATUS_DISABLED /\ op = "poll") =>
              (rc = WII_LIB_RC_DEVICE_DISABLED /\ log = <<>>))

\* the device was never reached (no report was ever decoded), is Disabled, and a
\* poll has just been refused without bus traffic
C34_Witness ==
    /\ device.interfaceCurrent = ZeroInterface
    /\ device.status = WII_LIB_DEVICE_STATUS_DISABLED
    /\ device.failedParamQueryCount = WII_LIB_MAX_FAILURES_BEFORE_DISABLING + 1
    /\ op = "poll"
    /\ rc = WII_LIB_RC_DEVICE_DISABLED
    /\ log = <<>>

(***************************************************************************)
(* Properties of the connection attempts (SpecConnect).                    *)
(***************************************************************************)
IsQuery(x) == x.ev = "query"

\* c is the call after WiiLib_ConnectToTarget on the device d: its log is the
\* entry, the configuration, and then, if the configuration succeeded, the
\* DEVICE_TYPE query, and then, unless the identity mismatched, the 10 ms delay
\* and a poll whose STATUS query is the last bus operation
ConnectSteps(d, c) ==
    LET k == IF d.dataEncrypted # 0 THEN 2 ELSE 4
        q == SelectSeq(c.log, IsQuery)
        configured == /\ Len(c.log) >= k + 1
                      /\ ConfiguredInOrder(d, [log |-> SubSeq(c.log, 2, k + 1),
                                               rc |-> WII_LIB_RC_SUCCESS])
    IN /\ IsConnect(c.log[1])
       /\ IsConnected(c.log[Len(c.log)])
       /\ ~configured =>
              /\ q = <<>>
              /\ c.rc = WII_LIB_RC_TARGET_NOT_INITIALIZED
              /\ c.d = d
       /\ configured =>
              /\ IsQuery(c.log[k + 2])
              /\ c.log[k + 2].param = WII_LIB_PARAM_DEVICE_TYPE
              /\ IF c.rc = WII_LIB_RC_TARGET_ID_MISMATCH
                 THEN /\ Len(q) = 1
                      /\ Len(c.log) = k + 3
                      /\ c.d.interfaceHome = d.interfaceHome
                 ELSE /\ c.log[k + 3] = [ev |-> "delay",
                                         ms |-> WII_LIB_DELAY_AFTER_CONFIRM_ID_MS]
                      /\ Len(q) = 2
                      /\ q[2].param = WII_LIB_PARAM_STATUS
                      /\ BusEvents(c.log)[Len(BusEvents(c.log))] = q[2]
                      /\ c.rc = WII_LIB_RC_SUCCESS =>
                             c.d.interfaceHome = c.d.interfaceCurrent

\* C35: a connection attempt (WiiLib_ConnectToTarget) performs, in order, the
\* configuration writes, the DEVICE_TYPE query, a 10 ms delay and one STATUS poll
\* that establishes home; when the configuration writes fail no query is issued,
\* and when the identity mismatches the STATUS poll is not issued and home is
\* left as it was.
C35_ConnectAttemptOrder ==
    Called =>
        \A e \in ConnectEnvs(ConnectWorld, Mocks(ConnectOps(device))) :
            ConnectSteps(device, WiiLib_ConnectToTarget(NewCall(device), e))

\* C36: whenever WiiLib_Init returns SUCCESS, its last connection attempt had a
\* successful DEVICE_TYPE read and a successful STATUS poll that established
\* home: on return the status is Active, failedParamQueryCount is 0 and
\* interfaceHome equals interfaceCurrent.
C36_InitSuccessMeansConnected ==
    (op = "init" /\ rc = WII_LIB_RC_SUCCESS) =>
        LET q == SelectSeq(LastAttempt(log), IsQuery)
        IN /\ Len(q) = 2
           /\ q[1].param = WII_LIB_PARAM_DEVICE_TYPE /\ q[1].ok
           /\ q[2].param = WII_LIB_PARAM_STATUS /\ q[2].ok
           /\ Connections(log)[Len(Connections(log))].rc = WII_LIB_RC_SUCCESS
           /\ device.status = WII_LIB_DEVICE_STATUS_ACTIVE
           /\ device.failedParamQueryCount = 0
           /\ device.interfaceHome = device.interfaceCurrent

\* C37 (Spec): a device left NOT_INITIALIZED by a failed WiiLib_Init becomes
\* Configuring or Active only through a WiiLib_DoMaintenance that runs a
\* connection attempt: polls leave it NOT_INITIALIZED, and a call of
\* WiiLib_DoMaintenance that leaves it Configuring or Active has run one.
C37_ActiveOnlyByConnecting ==
    (Called /\ device.status = WII_LIB_DEVICE_STATUS_NOT_INITIALIZED) =>
        /\ \A c \in Polled(World, device) :
               c.d.status = WII_LIB_DEVICE_STATUS_NOT_INITIALIZED
        /\ \A c \in Maintained(World, device) :
               c.d.status \in {WII_LIB_DEVICE_STATUS_CONFIGURING,
                               WII_LIB_DEVICE_STATUS_ACTIVE}
                   => SelectSeq(c.log, IsConnect) # <<>>

\* C38 (SpecConnect): failedParamQueryCount is reset to 0 only by WiiLib_Init or
\* by a query that returns SUCCESS: every query that returns an error (I2C_ERROR,
\* DATA_RECEIVED_IS_INVALID, UNSUPPORTED_DEVICE, TARGET_ID_MISMATCH,
\* UNKOWN_PARAMETER, DEVICE_DISABLED) leaves it at least as large as it was.
C38_ErrorsKeepCount ==
    Called =>
        \A p \in Params : \A e \in QueryEnvs(ConnectWorld, device, p) :
            LET c == WiiLib_QueryParameter(NewCall(device), e, p)
            IN c.rc # WII_LIB_RC_SUCCESS =>
                   c.d.failedParamQueryCount >= device.failedParamQueryCount

\* C39 (Spec): in every state reached after WiiLib_Init has been called, status
\* Disabled implies failedParamQueryCount > 20.
C39_DisabledMeansOverThreshold ==
    (Called /\ device.status = WII_LIB_DEVICE_STATUS_DISABLED) =>
        device.failedParamQueryCount > 20

C39_Witness ==
    /\ op = "maintenance"
    /\ rc = WII_LIB_RC_DEVICE_DISABLED
    /\ device.status = WII_LIB_DEVICE_STATUS_DISABLED
    /\ device.failedParamQueryCount = 23
    /\ device.interfaceHome # ZeroInterface

(***************************************************************************)
(* Properties of the copy of WiiLib_SetNewHomePosition (SpecTrack).        *)
(***************************************************************************)
\* C40: the copy step of a successful WiiLib_SetNewHomePosition writes
\* interfaceHome and nothing else: interfaceRelative, failedParamQueryCount,
\* status and every other field of the device are as the poll inside the call
\* left them.
C40_SetHomeWritesOnlyHome ==
    Called =>
        \A e \in SetHomeEnvs(TrackWorld, device) :
            LET polled == WiiLib_PollStatus(NewCall(device), e)
                homed == WiiLib_SetNewHomePosition(NewCall(device), e)
            IN homed.rc = WII_LIB_RC_SUCCESS =>
                   homed.d = [polled.d EXCEPT !.interfaceHome = polled.d.interfaceCurrent]

====
